---- MODULE Spec2Model ----
(***************************************************************************)
(* Guardrail layer of the three MCP services (BigQuery, GitHub, Outlook).  *)
(*                                                                         *)
(* Strings are sequences of one-character strings, so that strip(),        *)
(* upper(), the comment regexes and the glob matcher are computed the way  *)
(* the Python code computes them.  An optional value (Python None) is the  *)
(* empty sequence, a present value x is <<x>>.                             *)
(***************************************************************************)
EXTENDS Integers, Sequences, FiniteSets, TLC

VARIABLES
    \* the SQL guardrail applied on its own
    sqlIn, sqlN, sqlPc, sqlOut, sqlMulti, sqlOut2,
    \* the cost controls applied on their own
    ccArgs, ccOut,
    \* the BigQuery service: settings and one bigquery_select invocation
    bqSettings, bqPc, bqArgs, bqCleaned, bqDry, bqCalls, bqOut,
    \* the token store and one request being authenticated
    authStore, authPc, authToken, authOut, authCompares,
    \* the GitHub service: settings and one tool invocation
    ghSettings, ghPc, ghArgs, ghCalls, ghOut,
    \* the Outlook service: settings and one outlook_meetings invocation
    olSettings, olPc, olArgs, olParsed, olClamped, olCalls, olOut,
    \* the HTTP front of a service: settings, registry and one request
    mwSettings, mwStore, mwPc, mwReq, mwToken, mwAuth, mwStatus, mwHandler,
    \* process start: the token settings, the sources read, the store built
    suSettings, suPc, suReads, suStore, suErr,
    \* one service with several tool invocations in flight: settings, registry
    \* and each invocation's frame
    cvService, cvSettings, cvStore, cvInv

sqlVars == <<sqlIn, sqlN, sqlPc, sqlOut, sqlMulti, sqlOut2>>

ccVars == <<ccArgs, ccOut>>

bqVars == <<bqSettings, bqPc, bqArgs, bqCleaned, bqDry, bqCalls, bqOut>>

authVars == <<authStore, authPc, authToken, authOut, authCompares>>

ghVars == <<ghSettings, ghPc, ghArgs, ghCalls, ghOut>>

olVars == <<olSettings, olPc, olArgs, olParsed, olClamped, olCalls, olOut>>

mwVars == <<mwSettings, mwStore, mwPc, mwReq, mwToken, mwAuth, mwStatus, mwHandler>>

suVars == <<suSettings, suPc, suReads, suStore, suErr>>

cvVars == <<cvService, cvSettings, cvStore, cvInv>>

vars == <<sqlVars, ccVars, bqVars, authVars, ghVars, olVars, mwVars, suVars, cvVars>>

\* what a specification of one component leaves alone
sqlOthers == <<ccVars, bqVars, authVars, ghVars, olVars, mwVars, suVars, cvVars>>

ccOthers == <<sqlVars, bqVars, authVars, ghVars, olVars, mwVars, suVars, cvVars>>

bqOthers == <<sqlVars, ccVars, authVars, ghVars, olVars, mwVars, suVars, cvVars>>

authOthers == <<sqlVars, ccVars, bqVars, ghVars, olVars, mwVars, suVars, cvVars>>

ghOthers == <<sqlVars, ccVars, bqVars, authVars, olVars, mwVars, suVars, cvVars>>

olOthers == <<sqlVars, ccVars, bqVars, authVars, ghVars, mwVars, suVars, cvVars>>

mwOthers == <<sqlVars, ccVars, bqVars, authVars, ghVars, olVars, suVars, cvVars>>

suOthers == <<sqlVars, ccVars, bqVars, authVars, ghVars, olVars, mwVars, cvVars>>

cvOthers == <<sqlVars, ccVars, bqVars, authVars, ghVars, olVars, mwVars, suVars>>

-----------------------------------------------------------------------------
(* Optional values *)

None == <<>>

Some(x) == <<x>>

IsNone(o) == Len(o) = 0

Get(o) == o[1]

-----------------------------------------------------------------------------
(* Python str helpers *)

\* characters str.strip() removes (the ones the model's alphabets contain)
Whitespace == {" ", "\n", "\t"}

RECURSIVE LStripFrom(_, _)
LStripFrom(s, i) ==
    IF i > Len(s) THEN <<>>
    ELSE IF s[i] \in Whitespace THEN LStripFrom(s, i + 1)
    ELSE SubSeq(s, i, Len(s))

lstrip(s) == LStripFrom(s, 1)

RECURSIVE RStripTo(_, _)
RStripTo(s, j) ==
    IF j < 1 THEN <<>>
    ELSE IF s[j] \in Whitespace THEN RStripTo(s, j - 1)
    ELSE SubSeq(s, 1, j)

rstrip(s) == RStripTo(s, Len(s))

strip(s) == rstrip(lstrip(s))

\* s[i:i+2] == two-character token ab
At2(s, i, a, b) == i + 1 <= Len(s) /\ s[i] = a /\ s[i + 1] = b

Contains(s, c) == \E i \in 1..Len(s) : s[i] = c

\* str.upper() on the letters the model's statement types are written in
UpperOf ==
    [c \in {"s", "e", "l", "c", "t", "i", "n", "r"} |->
        CASE c = "s" -> "S" [] c = "e" -> "E" [] c = "l" -> "L" [] c = "c" -> "C"
          [] c = "t" -> "T" [] c = "i" -> "I" [] c = "n" -> "N" [] c = "r" -> "R"]

UpperChar(c) == IF c \in DOMAIN UpperOf THEN UpperOf[c] ELSE c

RECURSIVE upper(_)
upper(s) == IF Len(s) = 0 THEN <<>> ELSE <<UpperChar(Head(s))>> \o upper(Tail(s))

-----------------------------------------------------------------------------
(* sql_guardrails.py *)

\* first j >= from with s[j:j+2] == "*/", or 0 when there is none
RECURSIVE FindBlockEnd(_, _)
FindBlockEnd(s, from) ==
    IF from + 1 > Len(s) THEN 0
    ELSE IF At2(s, from, "*", "/") THEN from
    ELSE FindBlockEnd(s, from + 1)

\* re.sub(_MULTI_LINE_COMMENT, "", s): leftmost, non-greedy, non-overlapping,
\* '.' matching newlines (DOTALL); the result is not scanned again
RECURSIVE SubBlockFrom(_, _)
SubBlockFrom(s, i) ==
    IF i > Len(s) THEN <<>>
    ELSE IF At2(s, i, "/", "*") /\ FindBlockEnd(s, i + 2) # 0
         THEN SubBlockFrom(s, FindBlockEnd(s, i + 2) + 2)
         ELSE <<s[i]>> \o SubBlockFrom(s, i + 1)

SubMultiLineComment(s) == SubBlockFrom(s, 1)

\* first j >= from with s[j] == "\n", or Len(s)+1: where '.*$' stops (MULTILINE)
RECURSIVE FindLineEnd(_, _)
FindLineEnd(s, from) ==
    IF from > Len(s) THEN Len(s) + 1
    ELSE IF s[from] = "\n" THEN from
    ELSE FindLineEnd(s, from + 1)

\* re.sub(_SINGLE_LINE_COMMENT, "", s): from "--" or "#" to the end of the line,
\* the newline itself is kept
RECURSIVE SubLineFrom(_, _)
SubLineFrom(s, i) ==
    IF i > Len(s) THEN <<>>
    ELSE IF s[i] = "#" \/ At2(s, i, "-", "-")
         THEN SubLineFrom(s, FindLineEnd(s, i))
         ELSE <<s[i]>> \o SubLineFrom(s, i + 1)

SubSingleLineComment(s) == SubLineFrom(s, 1)

NoError == "none"

ErrSqlRequired == "SQL is required"

ErrSqlEmpty == "SQL is empty"

ErrSqlEmptyAfter == "SQL is empty after removing comments"

ErrMultiStatement == "Multiple statements are not allowed"

\* normalize_sql(sql), sql an optional string: [err, value]
normalize_sql(sql) ==
    IF IsNone(sql) THEN [err |-> ErrSqlRequired, value |-> <<>>]
    ELSE LET s1 == strip(Get(sql)) IN
         IF s1 = <<>> THEN [err |-> ErrSqlEmpty, value |-> <<>>]
         ELSE LET s2 == strip(SubSingleLineComment(SubMultiLineComment(s1))) IN
              IF s2 = <<>> THEN [err |-> ErrSqlEmptyAfter, value |-> <<>>]
              ELSE [err |-> NoError, value |-> s2]

\* while s.endswith(";"): s = s[:-1].rstrip()
RECURSIVE StripTrailingSemicolons(_)
StripTrailingSemicolons(s) ==
    IF Len(s) > 0 /\ s[Len(s)] = ";"
    THEN StripTrailingSemicolons(rstrip(SubSeq(s, 1, Len(s) - 1)))
    ELSE s

\* a variant that removes one trailing terminator only
reject_multiple_statements_one_terminator(sql) ==
    LET s == strip(sql)
        s1 == IF Len(s) > 0 /\ s[Len(s)] = ";"
              THEN rstrip(SubSeq(s, 1, Len(s) - 1)) ELSE s
    IN  IF Contains(s1, ";") THEN ErrMultiStatement ELSE NoError

\* reject_multiple_statements(sql): the error raised, or NoError
reject_multiple_statements(sql) ==
    IF Contains(StripTrailingSemicolons(strip(sql)), ";")
    THEN ErrMultiStatement
    ELSE NoError

-----------------------------------------------------------------------------
(* cost_controls.py *)

ErrCostExceeded == "Query rejected: estimated bytes processed exceeds cap"

\* the comparison of the gate turned round
enforce_estimated_bytes_inverted(estimated_bytes, max_bytes) ==
    IF IsNone(estimated_bytes) THEN NoError
    ELSE IF max_bytes <= 0 THEN NoError
    ELSE IF Get(estimated_bytes) < max_bytes THEN ErrCostExceeded
    ELSE NoError

\* the gate raising at the cap itself
enforce_estimated_bytes_at_cap(estimated_bytes, max_bytes) ==
    IF IsNone(estimated_bytes) THEN NoError
    ELSE IF max_bytes <= 0 THEN NoError
    ELSE IF Get(estimated_bytes) >= max_bytes THEN ErrCostExceeded
    ELSE NoError

\* enforce_estimated_bytes(estimated_bytes, max_bytes), estimated_bytes optional:
\* the error raised, or NoError
enforce_estimated_bytes(estimated_bytes, max_bytes) ==
    IF IsNone(estimated_bytes) THEN NoError
    ELSE IF max_bytes <= 0 THEN NoError
    ELSE IF Get(estimated_bytes) > max_bytes THEN ErrCostExceeded
    ELSE NoError

\* the cap applied to the requested value only, the default trusted
clamp_rows_default_uncapped(requested, default, hard_max) ==
    IF IsNone(requested) \/ Get(requested) <= 0 THEN default
    ELSE IF Get(requested) > hard_max THEN hard_max ELSE Get(requested)

\* clamp_rows(requested, default, hard_max), requested optional
clamp_rows(requested, default, hard_max) ==
    LET n0 == IF IsNone(requested) THEN default ELSE Get(requested)
        n1 == IF n0 <= 0 THEN default ELSE n0
    IN  IF n1 > hard_max THEN hard_max ELSE n1

-----------------------------------------------------------------------------
(* guardrails/limits.py *)

\* clamp_int(value, default, min_value, max_value), value optional
clamp_int(value, default, min_value, max_value) ==
    LET v0 == IF IsNone(value) THEN default ELSE Get(value)
        v1 == IF v0 < min_value THEN min_value ELSE v0
    IN  IF v1 > max_value THEN max_value ELSE v1

-----------------------------------------------------------------------------
(* The SQL guardrail applied to bounded inputs *)

\* inputs are built from lexical pieces: up to MaxCommentPieces pieces of comment
\* syntax alone, or up to MaxPieces pieces of comment syntax and statement text
MaxCommentPieces == 7

MaxPieces == 4

CommentPieces == { <<"/", "*">>, <<"*", "/">>, <<"/">>, <<"#">>, <<"\n">> }

\* a quoted string literal whose text is comment syntax; an input has at most
\* one, among its first MaxLiteralAt pieces
LiteralPieces == { <<"'", "#", "'">> }

MaxLiteralAt == 1

SqlPieces ==
    CommentPieces \cup { <<"x">>, <<";">>, <<" ">>, <<"-", "-">> } \cup LiteralPieces

CommentChars == {"/", "*", "#", "\n"}

OnlyCommentChars(s) == \A i \in 1..Len(s) : s[i] \in CommentChars

NoResult == [err |-> "unset", value |-> <<>>]

\* a component that is not exercised by the specification at hand
IdleSql ==
    /\ sqlIn = None /\ sqlN = 0 /\ sqlPc = "off"
    /\ sqlOut = NoResult /\ sqlMulti = "unset" /\ sqlOut2 = NoResult

IdleCc == ccArgs = [fn |-> "off"] /\ ccOut = <<>>

IdleBq ==
    /\ bqSettings = <<>> /\ bqPc = "off" /\ bqArgs = <<>> /\ bqCleaned = <<>>
    /\ bqDry = None /\ bqCalls = <<>> /\ bqOut = <<>>

IdleAuth ==
    /\ authStore = <<>> /\ authPc = "off" /\ authToken = None /\ authOut = <<>>
    /\ authCompares = 0

IdleGh ==
    /\ ghSettings = <<>> /\ ghPc = "off" /\ ghArgs = <<>> /\ ghCalls = <<>>
    /\ ghOut = <<>>

IdleOl ==
    /\ olSettings = <<>> /\ olPc = "off" /\ olArgs = <<>> /\ olParsed = <<>>
    /\ olClamped = <<>> /\ olCalls = <<>> /\ olOut = <<>>

IdleMw ==
    /\ mwSettings = <<>> /\ mwStore = <<>> /\ mwPc = "off" /\ mwReq = <<>>
    /\ mwToken = None /\ mwAuth = <<>> /\ mwStatus = 0 /\ mwHandler = 0

IdleSu ==
    /\ suSettings = <<>> /\ suPc = "off" /\ suReads = <<>> /\ suStore = <<>>
    /\ suErr = "off"

IdleCv == cvService = "off" /\ cvSettings = <<>> /\ cvStore = <<>> /\ cvInv = <<>>

InitSql ==
    /\ sqlIn \in {None, Some(<<>>)}
    /\ sqlN = 0
    /\ sqlPc = "input"
    /\ sqlOut = NoResult
    /\ sqlMulti = "unset"
    /\ sqlOut2 = NoResult
    /\ IdleCc
    /\ IdleBq
    /\ IdleAuth
    /\ IdleGh
    /\ IdleOl
    /\ IdleMw
    /\ IdleSu
    /\ IdleCv

\* the caller's SQL text grows by one piece
AppendPiece(p) ==
    /\ sqlPc = "input"
    /\ ~IsNone(sqlIn)
    /\ sqlN < (IF p \in LiteralPieces THEN MaxLiteralAt
               ELSE IF p \in CommentPieces /\ OnlyCommentChars(Get(sqlIn))
               THEN MaxCommentPieces ELSE MaxPieces)
    /\ p \in LiteralPieces => ~Contains(Get(sqlIn), "'")
    /\ sqlIn' = Some(Get(sqlIn) \o p)
    /\ sqlN' = sqlN + 1
    /\ UNCHANGED <<sqlPc, sqlOut, sqlMulti, sqlOut2>>

Normalize ==
    /\ sqlPc = "input"
    /\ sqlOut' = normalize_sql(sqlIn)
    /\ sqlPc' = IF sqlOut'.err = NoError THEN "normalized" ELSE "rejected"
    /\ UNCHANGED <<sqlIn, sqlN, sqlMulti, sqlOut2>>

RejectMultiple ==
    /\ sqlPc = "normalized"
    /\ sqlMulti' = reject_multiple_statements(sqlOut.value)
    /\ sqlPc' = IF sqlMulti' = NoError THEN "accepted" ELSE "rejected"
    /\ UNCHANGED <<sqlIn, sqlN, sqlOut, sqlOut2>>

NormalizeAgain ==
    /\ sqlPc = "normalized"
    /\ sqlOut2' = normalize_sql(Some(sqlOut.value))
    /\ sqlPc' = "renormalized"
    /\ UNCHANGED <<sqlIn, sqlN, sqlOut, sqlMulti>>

\* reject_multiple_statements called on the caller's text as it is
RejectMultipleDirect ==
    /\ sqlPc = "input"
    /\ ~IsNone(sqlIn)
    /\ sqlMulti' = reject_multiple_statements(Get(sqlIn))
    /\ sqlPc' = "checked"
    /\ UNCHANGED <<sqlIn, sqlN, sqlOut, sqlOut2>>

NextSql ==
    \/ \E p \in SqlPieces : AppendPiece(p) /\ UNCHANGED sqlOthers
    \/ Normalize /\ UNCHANGED sqlOthers
    \/ RejectMultiple /\ UNCHANGED sqlOthers
    \/ RejectMultipleDirect /\ UNCHANGED sqlOthers
    \/ NormalizeAgain /\ UNCHANGED sqlOthers

SpecSql == InitSql /\ [][NextSql]_vars

-----------------------------------------------------------------------------
(* The cost controls applied to bounded inputs *)

MaxBytes == 3

MaxRows == 3

OptBytes == {None} \cup { Some(b) : b \in -1..MaxBytes }

EnforceArgs ==
    [fn : {"enforce_estimated_bytes"}, estimated_bytes : OptBytes,
     max_bytes : -1..MaxBytes]

ClampArgs ==
    [fn : {"clamp_rows"},
     requested : {None} \cup { Some(r) : r \in -1..(MaxRows + 1) },
     default : -1..(MaxRows + 1), hard_max : -1..MaxRows]

\* clamp_int as its call sites use it: min_value=1
ClampIntArgs ==
    [fn : {"clamp_int"},
     value : {None} \cup { Some(r) : r \in -1..(MaxRows + 1) },
     default : -1..(MaxRows + 1), min_value : {1}, max_value : -1..MaxRows]

InitCost ==
    /\ ccArgs \in EnforceArgs \cup ClampArgs \cup ClampIntArgs
    /\ ccOut = <<>>
    /\ IdleSql
    /\ IdleBq
    /\ IdleAuth
    /\ IdleGh
    /\ IdleOl
    /\ IdleMw
    /\ IdleSu
    /\ IdleCv

ApplyEnforce ==
    /\ ccArgs.fn = "enforce_estimated_bytes"
    /\ ccOut = <<>>
    /\ ccOut' = Some(enforce_estimated_bytes(ccArgs.estimated_bytes, ccArgs.max_bytes))
    /\ UNCHANGED ccArgs

ApplyClamp ==
    /\ ccArgs.fn = "clamp_rows"
    /\ ccOut = <<>>
    /\ ccOut' = Some(clamp_rows(ccArgs.requested, ccArgs.default, ccArgs.hard_max))
    /\ UNCHANGED ccArgs

ApplyClampInt ==
    /\ ccArgs.fn = "clamp_int"
    /\ ccOut = <<>>
    /\ ccOut' = Some(clamp_int(ccArgs.value, ccArgs.default, ccArgs.min_value,
                               ccArgs.max_value))
    /\ UNCHANGED ccArgs

NextCost ==
    \/ ApplyEnforce /\ UNCHANGED ccOthers
    \/ ApplyClamp /\ UNCHANGED ccOthers
    \/ ApplyClampInt /\ UNCHANGED ccOthers

SpecCost == InitCost /\ [][NextCost]_vars

-----------------------------------------------------------------------------
(* mcp/tools/bigquery.py: bigquery_select *)

ErrNotSelect == "Only SELECT queries are allowed"

ErrBackend == "the BigQuery client raised"

SELECT == <<"S", "E", "L", "E", "C", "T">>

\* what the tool is called with
SqlSamples ==
    { <<"x">>, <<"x", ";">>, <<"x", ";", ";">>, <<"x", ";", " ", ";">>,
      <<"x", ";", "x">>, <<" ", "x", "\n">>, <<"x", " ", "-", "-", "x", ";", "x">>,
      <<"/", "*", "x", "*", "/">>, <<" ">>, <<>> }

MaxRowsArgs == {None} \cup { Some(r) : r \in -1..(MaxRows + 1) }

\* what the dry run may report
StatementTypes ==
    { None, Some(<<>>), Some(SELECT), Some(<<"s", "e", "l", "e", "c", "t">>),
      Some(<<"S", "e", "l", "e", "c", "t">>), Some(<<"I", "N", "S", "E", "R", "T">>),
      Some(<<"S", "E", "L", "E", "C", "T", "S">>) }

DryBytes == {None} \cup { Some(b) : b \in 0..MaxBytes }

BqSettings ==
    [bq_max_bytes_billed : -1..(MaxBytes - 1), bq_default_limit : 0..MaxRows,
     bq_max_return_rows : 0..MaxRows]

NoOut == [ok |-> FALSE, error |-> "unset", query |-> <<>>, max_rows |-> None]

Failure(e) == [ok |-> FALSE, error |-> e, query |-> <<>>, max_rows |-> None]

Init ==
    /\ bqSettings \in BqSettings
    /\ bqPc = "idle"
    /\ bqArgs = <<>>
    /\ bqCleaned = <<>>
    /\ bqDry = None
    /\ bqCalls = <<>>
    /\ bqOut = NoOut
    /\ IdleSql
    /\ IdleCc
    /\ IdleAuth
    /\ IdleGh
    /\ IdleOl
    /\ IdleMw
    /\ IdleSu
    /\ IdleCv

\* an absent classification let through
StatementAllowed_absent_ok(statement_type) ==
    IsNone(statement_type) \/ upper(Get(statement_type)) = SELECT

\* stmt = (dry.statement_type or "").upper(); stmt == "SELECT"
StatementAllowed(statement_type) ==
    upper(IF IsNone(statement_type) THEN <<>> ELSE Get(statement_type)) = SELECT

\* the tool is called: normalize, reject scripts, then start the dry run
Invoke(sql, max_rows) ==
    /\ bqPc = "idle"
    /\ bqArgs' = [sql |-> sql, max_rows |-> max_rows]
    /\ bqDry' = None
    /\ LET cleaned == normalize_sql(Some(sql)) IN
       IF cleaned.err # NoError
       THEN /\ bqPc' = "failed"
            /\ bqOut' = Failure(cleaned.err)
            /\ bqCleaned' = <<>>
            /\ bqCalls' = <<>>
       ELSE IF reject_multiple_statements(cleaned.value) # NoError
       THEN /\ bqPc' = "failed"
            /\ bqOut' = Failure(reject_multiple_statements(cleaned.value))
            /\ bqCleaned' = cleaned.value
            /\ bqCalls' = <<>>
       ELSE /\ bqPc' = "dry_run"
            /\ bqOut' = NoOut
            /\ bqCleaned' = cleaned.value
            /\ bqCalls' = <<[fn |-> "dry_run", sql |-> cleaned.value, max_rows |-> None]>>
    /\ UNCHANGED bqSettings

\* a variant that runs the caller's text instead of the text that was dry-run
DryRunReturns_running_raw_sql(statement_type, total_bytes_processed) ==
    /\ bqPc = "dry_run"
    /\ bqDry' = Some([statement_type |-> statement_type,
                      total_bytes_processed |-> total_bytes_processed])
    /\ IF ~StatementAllowed(statement_type)
       THEN /\ bqPc' = "failed"
            /\ bqOut' = Failure(ErrNotSelect)
            /\ UNCHANGED bqCalls
       ELSE /\ bqPc' = "execute"
            /\ bqOut' = NoOut
            /\ bqCalls' = Append(bqCalls, [fn |-> "execute_select", sql |-> bqArgs.sql,
                                           max_rows |-> Some(1)])
    /\ UNCHANGED <<bqSettings, bqArgs, bqCleaned>>

\* the dry run returns: statement type gate, cost gate, clamp, then start the query
DryRunReturns(statement_type, total_bytes_processed) ==
    /\ bqPc = "dry_run"
    /\ bqDry' = Some([statement_type |-> statement_type,
                      total_bytes_processed |-> total_bytes_processed])
    /\ IF ~StatementAllowed(statement_type)
       THEN /\ bqPc' = "failed"
            /\ bqOut' = Failure(ErrNotSelect)
            /\ UNCHANGED bqCalls
       ELSE IF enforce_estimated_bytes(total_bytes_processed,
                                       bqSettings.bq_max_bytes_billed) # NoError
       THEN /\ bqPc' = "failed"
            /\ bqOut' = Failure(ErrCostExceeded)
            /\ UNCHANGED bqCalls
       ELSE LET effective_rows == clamp_rows(bqArgs.max_rows,
                                             bqSettings.bq_default_limit,
                                             bqSettings.bq_max_return_rows) IN
            /\ bqPc' = "execute"
            /\ bqOut' = NoOut
            /\ bqCalls' = Append(bqCalls, [fn |-> "execute_select", sql |-> bqCleaned,
                                           max_rows |-> Some(effective_rows)])
    /\ UNCHANGED <<bqSettings, bqArgs, bqCleaned>>

\* a variant in which a failed dry run is attempted once more
DryRunRaises_retrying ==
    /\ bqPc = "dry_run"
    /\ Len(bqCalls) < 2
    /\ bqCalls' = Append(bqCalls, [fn |-> "dry_run", sql |-> bqCleaned, max_rows |-> None])
    /\ UNCHANGED <<bqSettings, bqPc, bqArgs, bqCleaned, bqDry, bqOut>>

\* bq_service.dry_run raises (a syntax error, a backend failure)
DryRunRaises ==
    /\ bqPc = "dry_run"
    /\ bqPc' = "failed"
    /\ bqOut' = Failure(ErrBackend)
    /\ UNCHANGED <<bqSettings, bqArgs, bqCleaned, bqDry, bqCalls>>

\* the query returns: the response is built
ExecuteReturns ==
    /\ bqPc = "execute"
    /\ bqPc' = "done"
    /\ bqOut' = [ok |-> TRUE, error |-> NoError, query |-> bqCleaned,
                 max_rows |-> bqCalls[Len(bqCalls)].max_rows]
    /\ UNCHANGED <<bqSettings, bqArgs, bqCleaned, bqDry, bqCalls>>

\* bq_service.execute_select raises
ExecuteRaises ==
    /\ bqPc = "execute"
    /\ bqPc' = "failed"
    /\ bqOut' = Failure(ErrBackend)
    /\ UNCHANGED <<bqSettings, bqArgs, bqCleaned, bqDry, bqCalls>>

\* the response or the error has gone to the caller: nothing of the request is kept
Discard ==
    /\ bqPc \in {"done", "failed"}
    /\ bqPc' = "idle"
    /\ bqArgs' = <<>>
    /\ bqCleaned' = <<>>
    /\ bqDry' = None
    /\ bqCalls' = <<>>
    /\ bqOut' = NoOut
    /\ UNCHANGED bqSettings

Next ==
    \/ \E sql \in SqlSamples, max_rows \in MaxRowsArgs :
          Invoke(sql, max_rows) /\ UNCHANGED bqOthers
    \/ \E st \in StatementTypes, b \in DryBytes :
          DryRunReturns(st, b) /\ UNCHANGED bqOthers
    \/ DryRunRaises /\ UNCHANGED bqOthers
    \/ ExecuteReturns /\ UNCHANGED bqOthers
    \/ ExecuteRaises /\ UNCHANGED bqOthers
    \/ Discard /\ UNCHANGED bqOthers

Spec == Init /\ [][Next]_vars

-----------------------------------------------------------------------------
(* services/secrets.py: TokenStore.authenticate_request *)

\* a character outside ASCII, as a Latin-1 header byte or a percent-encoded query
\* parameter delivers it
NonAscii == {"U+00E9"}

IsAscii(s) == \A i \in 1..Len(s) : s[i] \notin NonAscii

\* secrets.compare_digest(a, b) on two str: TypeError unless both are ASCII
compare_digest(a, b) ==
    IF ~IsAscii(a) \/ ~IsAscii(b) THEN "TypeError"
    ELSE IF a = b THEN "True"
    ELSE "False"

AuthError(detail) == [kind |-> "AuthError", detail |-> detail, label |-> <<>>]

Authenticated(label) == [kind |-> "label", detail |-> "", label |-> label]

\* for known, label in self.token_to_label.items(): ... ; raise AuthError
RECURSIVE MatchKnownFrom(_, _, _)
MatchKnownFrom(store, i, token) ==
    IF i > Len(store) THEN AuthError("Invalid token")
    ELSE LET same == compare_digest(store[i].token, token) IN
         IF same = "TypeError" THEN [kind |-> "TypeError", detail |-> "", label |-> <<>>]
         ELSE IF same = "True" THEN Authenticated(store[i].label)
         ELSE MatchKnownFrom(store, i + 1, token)

\* authenticate_request, from the token _extract_bearer_token returned (optional)
authenticate_request(store, token) ==
    IF IsNone(token) \/ Get(token) = <<>> THEN AuthError("Missing Bearer token")
    ELSE MatchKnownFrom(store, 1, Get(token))

\* how many times the loop of authenticate_request calls compare_digest: it is
\* left by `return label` at the first key that matches, and by the TypeError
RECURSIVE ComparesFrom(_, _, _)
ComparesFrom(store, i, token) ==
    IF i > Len(store) THEN 0
    ELSE IF compare_digest(store[i].token, token) = "False"
         THEN 1 + ComparesFrom(store, i + 1, token)
         ELSE 1

compare_digest_calls(store, token) ==
    IF IsNone(token) \/ Get(token) = <<>> THEN 0
    ELSE ComparesFrom(store, 1, Get(token))

MaxTokenLen == 2

MaxTokens == 2

AuthChars == {"a"} \cup NonAscii

\* non-empty, trimmed token strings
Tokens == UNION { [1..n -> AuthChars] : n \in 1..MaxTokenLen }

PresentedTokens == {None, Some(<<>>)} \cup { Some(k) : k \in Tokens }

HasKey(store, k) == \E i \in 1..Len(store) : store[i].token = k

\* the process starts: the token store is still to be built
InitAuth ==
    /\ authStore = <<>>
    /\ authPc = "startup"
    /\ authToken = None
    /\ authOut = <<>>
    /\ authCompares = 0
    /\ IdleSql
    /\ IdleCc
    /\ IdleBq
    /\ IdleGh
    /\ IdleOl
    /\ IdleMw
    /\ IdleSu
    /\ IdleCv

\* from_settings: one more token -> label entry of the configured mapping
LoadToken(k) ==
    /\ authPc = "startup"
    /\ Len(authStore) < MaxTokens
    /\ ~HasKey(authStore, k)
    /\ authStore' = Append(authStore, [token |-> k, label |-> <<"label", Len(authStore) + 1>>])
    /\ UNCHANGED <<authPc, authToken, authOut, authCompares>>

\* from_settings returns the store (it raises when the mapping is empty)
StoreBuilt ==
    /\ authPc = "startup"
    /\ Len(authStore) > 0
    /\ authPc' = "waiting"
    /\ UNCHANGED <<authStore, authToken, authOut, authCompares>>

\* a request arrives and is authenticated
Authenticate(token) ==
    /\ authPc = "waiting"
    /\ authToken' = token
    /\ authOut' = authenticate_request(authStore, token)
    /\ authCompares' = compare_digest_calls(authStore, token)
    /\ authPc' = "answered"
    /\ UNCHANGED authStore

\* the request is over
AuthDiscard ==
    /\ authPc = "answered"
    /\ authPc' = "waiting"
    /\ authToken' = None
    /\ authOut' = <<>>
    /\ authCompares' = 0
    /\ UNCHANGED authStore

NextAuth ==
    \/ \E k \in Tokens : LoadToken(k) /\ UNCHANGED authOthers
    \/ StoreBuilt /\ UNCHANGED authOthers
    \/ \E token \in PresentedTokens : Authenticate(token) /\ UNCHANGED authOthers
    \/ AuthDiscard /\ UNCHANGED authOthers

SpecAuth == InitAuth /\ [][NextAuth]_vars

-----------------------------------------------------------------------------
(* guardrails/repo_allowlist.py *)

\* value.split(","), from position i with the item collected so far
RECURSIVE SplitFrom(_, _, _)
SplitFrom(s, i, item) ==
    IF i > Len(s) THEN <<item>>
    ELSE IF s[i] = "," THEN <<item>> \o SplitFrom(s, i + 1, <<>>)
    ELSE SplitFrom(s, i + 1, Append(item, s[i]))

SplitCommas(s) == SplitFrom(s, 1, <<>>)

RECURSIVE StripAndDropEmpty(_)
StripAndDropEmpty(parts) ==
    IF Len(parts) = 0 THEN <<>>
    ELSE IF strip(Head(parts)) = <<>> THEN StripAndDropEmpty(Tail(parts))
    ELSE <<strip(Head(parts))>> \o StripAndDropEmpty(Tail(parts))

\* a variant that keeps the items that are empty once stripped
RECURSIVE StripEach(_)
StripEach(parts) ==
    IF Len(parts) = 0 THEN <<>>
    ELSE <<strip(Head(parts))>> \o StripEach(Tail(parts))

parse_allowlist_keeping_empty(value) ==
    IF IsNone(value) \/ Get(value) = <<>> THEN <<>>
    ELSE StripEach(SplitCommas(Get(value)))

\* parse_allowlist(value), value optional
parse_allowlist(value) ==
    IF IsNone(value) \/ Get(value) = <<>> THEN <<>>
    ELSE StripAndDropEmpty(SplitCommas(Get(value)))

\* fnmatch.translate: where the class opened at pat[i] = "[" closes, 0 when it
\* does not close and "[" is a literal character
RECURSIVE FindClassEnd(_, _)
FindClassEnd(pat, j) ==
    IF j > Len(pat) THEN 0
    ELSE IF pat[j] = "]" THEN j
    ELSE FindClassEnd(pat, j + 1)

ClassEnd(pat, i) ==
    LET j1 == IF i + 1 <= Len(pat) /\ pat[i + 1] = "!" THEN i + 2 ELSE i + 1
        j2 == IF j1 <= Len(pat) /\ pat[j1] = "]" THEN j1 + 1 ELSE j1
    IN  FindClassEnd(pat, j2)

\* whether character c is in the class pat[i..close] (no ranges: the model's
\* alphabet has no "-")
InClass(pat, i, close, c) ==
    IF pat[i + 1] = "!"
    THEN ~(\E k \in (i + 2)..(close - 1) : pat[k] = c)
    ELSE \E k \in (i + 1)..(close - 1) : pat[k] = c

\* fnmatch.fnmatchcase(name, pat): pat[i..] matches the whole of name[j..];
\* "*" and "?" match any character, "/" included
RECURSIVE GlobFrom(_, _, _, _)
GlobFrom(pat, i, name, j) ==
    IF i > Len(pat) THEN j > Len(name)
    ELSE IF pat[i] = "*"
         THEN GlobFrom(pat, i + 1, name, j)
              \/ (j <= Len(name) /\ GlobFrom(pat, i, name, j + 1))
    ELSE IF pat[i] = "?"
         THEN j <= Len(name) /\ GlobFrom(pat, i + 1, name, j + 1)
    ELSE IF pat[i] = "[" /\ ClassEnd(pat, i) # 0
         THEN /\ j <= Len(name)
              /\ InClass(pat, i, ClassEnd(pat, i), name[j])
              /\ GlobFrom(pat, ClassEnd(pat, i) + 1, name, j + 1)
    ELSE j <= Len(name) /\ name[j] = pat[i] /\ GlobFrom(pat, i + 1, name, j + 1)

fnmatchcase(name, pat) == GlobFrom(pat, 1, name, 1)

\* a variant in which an empty allowlist allows nothing
is_allowed_closed_by_default(owner, repo, patterns) ==
    \E k \in 1..Len(patterns) : fnmatchcase(owner \o <<"/">> \o repo, patterns[k])

\* is_allowed(owner, repo, patterns)
is_allowed(owner, repo, patterns) ==
    IF Len(patterns) = 0 THEN TRUE
    ELSE \E k \in 1..Len(patterns) : fnmatchcase(owner \o <<"/">> \o repo, patterns[k])

ErrRepoNotAllowed == "Repository is not allowed by server policy"

\* require_allowed(owner, repo, patterns): the error raised, or NoError
require_allowed(owner, repo, patterns) ==
    IF ~is_allowed(owner, repo, patterns) THEN ErrRepoNotAllowed ELSE NoError

-----------------------------------------------------------------------------
(* mcp/tools/github.py *)

ErrOwnerRepoRequired == "owner and repo are required"

ErrGitHub == "the GitHub client raised"

MaxCommits == 2

\* GITHUB_ALLOWED_REPOS as configured
AllowedReposSamples ==
    { None, Some(<<>>), Some(<<",", " ">>),
      Some(<<"a", "/", "*">>), Some(<<"a", "/", "b">>),
      Some(<<" ", "a", "/", "a", " ", ",", "b", "/", "?">>),
      Some(<<",", "a", "/", "b", " ", ",", ",", " ", "b", "/", "*", ",">>),
      Some(<<"*", "/", "[", "!", "a", "]">>) }

GhSettings ==
    [github_allowed_repos : AllowedReposSamples,
     github_max_commits_return : 1..MaxCommits]

Owners == { <<"a">>, <<"b">>, <<"A">>, <<" ", "a", " ">>, <<" ">> }

Repos == { <<"a">>, <<"b">>, <<>> }

Limits == -1..(MaxCommits + 1)

GhNoOut == [ok |-> FALSE, error |-> "unset"]

GhFailure(e) == [ok |-> FALSE, error |-> e]

InitGithub ==
    /\ ghSettings \in GhSettings
    /\ ghPc = "idle"
    /\ ghArgs = <<>>
    /\ ghCalls = <<>>
    /\ ghOut = GhNoOut
    /\ IdleSql
    /\ IdleCc
    /\ IdleBq
    /\ IdleAuth
    /\ IdleOl
    /\ IdleMw
    /\ IdleSu
    /\ IdleCv

\* github_latest_commit as first registered: no allowlist check
LatestCommitFirst(owner, repo) ==
    /\ ghPc = "idle"
    /\ ghArgs' = [tool |-> "github_latest_commit", handler |-> 1,
                  owner |-> strip(owner), repo |-> strip(repo)]
    /\ IF strip(owner) = <<>> \/ strip(repo) = <<>>
       THEN /\ ghPc' = "failed"
            /\ ghOut' = GhFailure(ErrOwnerRepoRequired)
            /\ ghCalls' = <<>>
       ELSE /\ ghPc' = "calling"
            /\ ghOut' = GhNoOut
            /\ ghCalls' = <<[fn |-> "latest_commit", owner |-> strip(owner),
                             repo |-> strip(repo), limit |-> None]>>
    /\ UNCHANGED ghSettings

\* github_latest_commits: the limit is clamped, no allowlist check
LatestCommits(owner, repo, limit) ==
    /\ ghPc = "idle"
    /\ ghArgs' = [tool |-> "github_latest_commits", handler |-> 1,
                  owner |-> strip(owner), repo |-> strip(repo)]
    /\ IF strip(owner) = <<>> \/ strip(repo) = <<>>
       THEN /\ ghPc' = "failed"
            /\ ghOut' = GhFailure(ErrOwnerRepoRequired)
            /\ ghCalls' = <<>>
       ELSE /\ ghPc' = "calling"
            /\ ghOut' = GhNoOut
            /\ ghCalls' = <<[fn |-> "latest_commits", owner |-> strip(owner),
                             repo |-> strip(repo),
                             limit |-> Some(clamp_int(Some(limit), 5, 1,
                                        ghSettings.github_max_commits_return))]>>
    /\ UNCHANGED ghSettings

\* github_latest_commit as registered again: the allowlist is enforced
LatestCommitSecond(owner, repo) ==
    /\ ghPc = "idle"
    /\ ghArgs' = [tool |-> "github_latest_commit", handler |-> 2,
                  owner |-> strip(owner), repo |-> strip(repo)]
    /\ LET patterns == parse_allowlist(ghSettings.github_allowed_repos) IN
       IF strip(owner) = <<>> \/ strip(repo) = <<>>
       THEN /\ ghPc' = "failed"
            /\ ghOut' = GhFailure(ErrOwnerRepoRequired)
            /\ ghCalls' = <<>>
       ELSE IF require_allowed(strip(owner), strip(repo), patterns) # NoError
       THEN /\ ghPc' = "failed"
            /\ ghOut' = GhFailure(require_allowed(strip(owner), strip(repo), patterns))
            /\ ghCalls' = <<>>
       ELSE /\ ghPc' = "calling"
            /\ ghOut' = GhNoOut
            /\ ghCalls' = <<[fn |-> "latest_commit", owner |-> strip(owner),
                             repo |-> strip(repo), limit |-> None]>>
    /\ UNCHANGED ghSettings

\* the GitHub client returns: the response is built
GitHubReturns ==
    /\ ghPc = "calling"
    /\ ghPc' = "done"
    /\ ghOut' = [ok |-> TRUE, error |-> NoError]
    /\ UNCHANGED <<ghSettings, ghArgs, ghCalls>>

\* the GitHub client raises
GitHubRaises ==
    /\ ghPc = "calling"
    /\ ghPc' = "failed"
    /\ ghOut' = GhFailure(ErrGitHub)
    /\ UNCHANGED <<ghSettings, ghArgs, ghCalls>>

\* the response or the error has gone to the caller
GhDiscard ==
    /\ ghPc \in {"done", "failed"}
    /\ ghPc' = "idle"
    /\ ghArgs' = <<>>
    /\ ghCalls' = <<>>
    /\ ghOut' = GhNoOut
    /\ UNCHANGED ghSettings

NextGithub ==
    \/ \E owner \in Owners, repo \in Repos :
          LatestCommitFirst(owner, repo) /\ UNCHANGED ghOthers
    \/ \E owner \in Owners, repo \in Repos, limit \in Limits :
          LatestCommits(owner, repo, limit) /\ UNCHANGED ghOthers
    \/ \E owner \in Owners, repo \in Repos :
          LatestCommitSecond(owner, repo) /\ UNCHANGED ghOthers
    \/ GitHubReturns /\ UNCHANGED ghOthers
    \/ GitHubRaises /\ UNCHANGED ghOthers
    \/ GhDiscard /\ UNCHANGED ghOthers

SpecGithub == InitGithub /\ [][NextGithub]_vars

-----------------------------------------------------------------------------
(* outlook-mcp-servers: guardrails/time_window.py *)

\* A timestamp text is [form, local, zone]: form "datetime" is a well-formed
\* date and time whose wall-clock reading is `local` hours after the model's
\* epoch, followed by the zone designator `zone` ("" for none); form "empty" is
\* the empty string and form "garbage" a text that is no timestamp.
\* A datetime object is [local, tz], tz the optional UTC offset in hours.

ErrIsoRequired == "start_iso and end_iso are required"

ErrInvalidIso == "Invalid ISO datetime"

ErrEndNotAfterStart == "end_iso must be after start_iso"

ErrNaiveAware == "TypeError: can't compare offset-naive and offset-aware datetimes"

\* timedelta(days=1), in hours
HoursPerDay == 24

EmptyText == [form |-> "empty", local |-> 0, zone |-> ""]

GarbageText == [form |-> "garbage", local |-> 0, zone |-> ""]

\* text.replace("Z", "+00:00")
replace_Z(text) ==
    IF text.zone = "Z" THEN [text EXCEPT !.zone = "+00:00"] ELSE text

\* the offsets datetime.fromisoformat reads
ZoneOffset == [z \in {"Z", "+00:00", "+01:00"} |-> IF z = "+01:00" THEN 1 ELSE 0]

\* datetime.fromisoformat(text): [err, dt]
fromisoformat(text) ==
    IF text.form # "datetime"
    THEN [err |-> "ValueError", dt |-> [local |-> 0, tz |-> None]]
    ELSE IF text.zone = ""
    THEN [err |-> NoError, dt |-> [local |-> text.local, tz |-> None]]
    ELSE IF text.zone \in DOMAIN ZoneOffset
    THEN [err |-> NoError,
          dt |-> [local |-> text.local, tz |-> Some(ZoneOffset[text.zone])]]
    ELSE [err |-> "ValueError", dt |-> [local |-> 0, tz |-> None]]

\* dt.isoformat(): an offset is written +HH:MM, never "Z"
isoformat(dt) ==
    [form |-> "datetime", local |-> dt.local,
     zone |-> IF IsNone(dt.tz) THEN ""
              ELSE IF Get(dt.tz) = 1 THEN "+01:00" ELSE "+00:00"]

\* datetimes can be ordered and subtracted when both or neither carry an offset
Comparable(a, b) == IsNone(a.tz) = IsNone(b.tz)

\* the reading that comparison and subtraction use: UTC when there is an offset
UtcHours(dt) == IF IsNone(dt.tz) THEN dt.local ELSE dt.local - Get(dt.tz)

NoRange(e) == [err |-> e, start |-> EmptyText, end |-> EmptyText]

\* a variant that hands back the timestamps as re-formatted by isoformat()
parse_iso_range_reformatting(start_iso, end_iso) ==
    IF IsNone(start_iso) \/ IsNone(end_iso) THEN NoRange(ErrIsoRequired)
    ELSE IF Get(start_iso).form = "empty" \/ Get(end_iso).form = "empty"
    THEN NoRange(ErrIsoRequired)
    ELSE IF fromisoformat(replace_Z(Get(start_iso))).err # NoError
            \/ fromisoformat(replace_Z(Get(end_iso))).err # NoError
    THEN NoRange(ErrInvalidIso)
    ELSE [err |-> NoError,
          start |-> isoformat(fromisoformat(replace_Z(Get(start_iso))).dt),
          end |-> isoformat(fromisoformat(replace_Z(Get(end_iso))).dt)]

\* parse_iso_range(start_iso, end_iso), both optional texts
parse_iso_range(start_iso, end_iso) ==
    IF IsNone(start_iso) \/ IsNone(end_iso) THEN NoRange(ErrIsoRequired)
    ELSE IF Get(start_iso).form = "empty" \/ Get(end_iso).form = "empty"
    THEN NoRange(ErrIsoRequired)
    ELSE IF fromisoformat(replace_Z(Get(start_iso))).err # NoError
            \/ fromisoformat(replace_Z(Get(end_iso))).err # NoError
    THEN NoRange(ErrInvalidIso)
    ELSE [err |-> NoError, start |-> Get(start_iso), end |-> Get(end_iso)]

\* a variant that rejects an over-wide range instead of shortening it
clamp_range_days_rejecting(start_iso, end_iso, max_days) ==
    LET s == fromisoformat(replace_Z(start_iso)).dt
        e == fromisoformat(replace_Z(end_iso)).dt
    IN  IF ~Comparable(s, e) THEN NoRange(ErrNaiveAware)
        ELSE IF UtcHours(e) <= UtcHours(s) THEN NoRange(ErrEndNotAfterStart)
        ELSE IF UtcHours(e) - UtcHours(s) > max_days * HoursPerDay
        THEN NoRange(ErrEndNotAfterStart)
        ELSE [err |-> NoError, start |-> isoformat(s), end |-> isoformat(e)]

\* clamp_range_days(start_iso, end_iso, max_days=max_days) on two texts
clamp_range_days(start_iso, end_iso, max_days) ==
    LET ps == fromisoformat(replace_Z(start_iso))
        pe == fromisoformat(replace_Z(end_iso))
        s == ps.dt
        e == pe.dt
    IN  IF ps.err # NoError \/ pe.err # NoError THEN NoRange(ErrInvalidIso)
        ELSE IF ~Comparable(s, e) THEN NoRange(ErrNaiveAware)
        ELSE IF UtcHours(e) <= UtcHours(s) THEN NoRange(ErrEndNotAfterStart)
        ELSE LET e2 == IF UtcHours(e) - UtcHours(s) > max_days * HoursPerDay
                       THEN [local |-> s.local + max_days * HoursPerDay, tz |-> s.tz]
                       ELSE e
             IN  [err |-> NoError, start |-> isoformat(s), end |-> isoformat(e2)]

-----------------------------------------------------------------------------
(* outlook-mcp-servers: mcp/tools/outlook.py, outlook_meetings *)

ErrGraph == "the Graph client raised"

MaxDays == 2

MaxEvents == 2

OlSettings ==
    [max_days_range : -1..MaxDays, max_events_return : 0..MaxEvents]

\* wall-clock readings: the epoch, an hour later, and whole days later
Hours == {0, 1} \cup { HoursPerDay * d : d \in 1..(MaxDays + 1) }

Zones == {"", "Z", "+00:00", "+01:00"}

IsoTexts ==
    {None, Some(EmptyText), Some(GarbageText)}
        \cup { Some([form |-> "datetime", local |-> h, zone |-> z]) :
                 h \in Hours, z \in Zones }

MaxEventsArgs == {None} \cup { Some(n) : n \in -1..(MaxEvents + 1) }

OlNoOut == [ok |-> FALSE, error |-> "unset"]

OlFailure(e) == [ok |-> FALSE, error |-> e]

InitOutlook ==
    /\ olSettings \in OlSettings
    /\ olPc = "idle"
    /\ olArgs = <<>>
    /\ olParsed = NoRange("unset")
    /\ olClamped = NoRange("unset")
    /\ olCalls = <<>>
    /\ olOut = OlNoOut
    /\ IdleSql
    /\ IdleCc
    /\ IdleBq
    /\ IdleAuth
    /\ IdleGh
    /\ IdleMw
    /\ IdleSu
    /\ IdleCv

\* outlook_meetings is called: parse, clamp the range, clamp the count, then
\* start the Graph call
OutlookMeetings(start_iso, end_iso, max_events) ==
    /\ olPc = "idle"
    /\ olArgs' = [tool |-> "outlook_meetings", start_iso |-> start_iso,
                  end_iso |-> end_iso, max_events |-> max_events]
    /\ LET parsed == parse_iso_range(start_iso, end_iso)
           clamped == clamp_range_days(parsed.start, parsed.end,
                                       olSettings.max_days_range)
           limit == clamp_int(max_events, olSettings.max_events_return, 1,
                              olSettings.max_events_return)
       IN  /\ olParsed' = parsed
           /\ IF parsed.err # NoError
              THEN /\ olClamped' = NoRange("unset")
                   /\ olPc' = "failed"
                   /\ olOut' = OlFailure(parsed.err)
                   /\ olCalls' = <<>>
              ELSE IF clamped.err # NoError
              THEN /\ olClamped' = clamped
                   /\ olPc' = "failed"
                   /\ olOut' = OlFailure(clamped.err)
                   /\ olCalls' = <<>>
              ELSE /\ olClamped' = clamped
                   /\ olPc' = "calling"
                   /\ olOut' = OlNoOut
                   /\ olCalls' = <<[fn |-> "list_meetings", start |-> clamped.start,
                                    end |-> clamped.end, max_events |-> limit]>>
    /\ UNCHANGED olSettings

\* today_range(timezone) at the instant `now` (wall-clock hours, UTC offset):
\* midnight of that day and midnight a day later, as isoformat() writes them
today_range(now, offset) ==
    LET start == [local |-> (now \div HoursPerDay) * HoursPerDay, tz |-> Some(offset)]
        end == [local |-> start.local + HoursPerDay, tz |-> Some(offset)]
    IN  [start |-> isoformat(start), end |-> isoformat(end)]

\* outlook_today_meetings is called: the configured count goes to list_meetings
\* as it is
OutlookTodayMeetings(now, offset) ==
    /\ olPc = "idle"
    /\ olArgs' = [tool |-> "outlook_today_meetings"]
    /\ olCalls' = <<[fn |-> "list_meetings", start |-> today_range(now, offset).start,
                     end |-> today_range(now, offset).end,
                     max_events |-> olSettings.max_events_return]>>
    /\ olPc' = "calling"
    /\ UNCHANGED <<olSettings, olParsed, olClamped, olOut>>

\* the count GraphCalendarService.next_meeting asks list_meetings for
NextMeetingMaxEvents == 50

\* outlook_next_meeting is called: within_days is clamped, and next_meeting lists
\* the meetings from now to now + within_days days
OutlookNextMeeting(within_days, now, offset) ==
    /\ olPc = "idle"
    /\ olArgs' = [tool |-> "outlook_next_meeting", within_days |-> within_days]
    /\ LET days == clamp_int(Some(within_days), 7, 1, olSettings.max_days_range)
           start == [local |-> now, tz |-> Some(offset)]
           end == [local |-> now + days * HoursPerDay, tz |-> Some(offset)]
       IN  olCalls' = <<[fn |-> "list_meetings", start |-> isoformat(start),
                         end |-> isoformat(end),
                         max_events |-> NextMeetingMaxEvents]>>
    /\ olPc' = "calling"
    /\ UNCHANGED <<olSettings, olParsed, olClamped, olOut>>

\* graph_service.list_meetings returns: the response is built
ListMeetingsReturns ==
    /\ olPc = "calling"
    /\ olPc' = "done"
    /\ olOut' = [ok |-> TRUE, error |-> NoError]
    /\ UNCHANGED <<olSettings, olArgs, olParsed, olClamped, olCalls>>

\* graph_service.list_meetings raises
ListMeetingsRaises ==
    /\ olPc = "calling"
    /\ olPc' = "failed"
    /\ olOut' = OlFailure(ErrGraph)
    /\ UNCHANGED <<olSettings, olArgs, olParsed, olClamped, olCalls>>

\* the response or the error has gone to the caller
OlDiscard ==
    /\ olPc \in {"done", "failed"}
    /\ olPc' = "idle"
    /\ olArgs' = <<>>
    /\ olParsed' = NoRange("unset")
    /\ olClamped' = NoRange("unset")
    /\ olCalls' = <<>>
    /\ olOut' = OlNoOut
    /\ UNCHANGED olSettings

WithinDaysArgs == -1..(MaxDays + 1)

NextOutlook ==
    \/ /\ olPc = "idle"
       /\ \E now \in Hours, offset \in {0, 1} :
             OutlookTodayMeetings(now, offset) /\ UNCHANGED olOthers
    \/ /\ olPc = "idle"
       /\ \E within_days \in WithinDaysArgs, now \in Hours, offset \in {0, 1} :
             OutlookNextMeeting(within_days, now, offset) /\ UNCHANGED olOthers
    \/ /\ olPc = "idle"
       /\ \E start_iso \in IsoTexts, end_iso \in IsoTexts, max_events \in MaxEventsArgs :
             OutlookMeetings(start_iso, end_iso, max_events) /\ UNCHANGED olOthers
    \/ ListMeetingsReturns /\ UNCHANGED olOthers
    \/ ListMeetingsRaises /\ UNCHANGED olOthers
    \/ OlDiscard /\ UNCHANGED olOthers

SpecOutlook == InitOutlook /\ [][NextOutlook]_vars

-----------------------------------------------------------------------------
(* services/secrets.py: _extract_bearer_token; main.py: bearer_auth *)

\* A header value or a query parameter is a sequence of atoms: a scheme word
\* ("Bearer", "bearer", "BEARER", "Basic"), a token character, or whitespace.

\* str.lower() on the words the model writes in more than one case
LowerAtom(a) ==
    IF a \in {"Bearer", "BEARER"} THEN "bearer"
    ELSE IF a \in {"PROD", "Prod"} THEN "prod"
    ELSE IF a = "Production" THEN "production"
    ELSE a

RECURSIVE lower(_)
lower(s) == IF Len(s) = 0 THEN <<>> ELSE <<LowerAtom(Head(s))>> \o lower(Tail(s))

\* first i >= from with s[i] whitespace, or 0
RECURSIVE FindWhitespace(_, _)
FindWhitespace(s, from) ==
    IF from > Len(s) THEN 0
    ELSE IF s[from] \in Whitespace THEN from
    ELSE FindWhitespace(s, from + 1)

\* auth.split(None, 1): at most two parts, runs of whitespace separate, leading
\* whitespace is skipped and a part is never empty
split_once(auth) ==
    LET s == lstrip(auth)
        k == FindWhitespace(s, 1)
    IN  IF s = <<>> THEN <<>>
        ELSE IF k = 0 THEN <<s>>
        ELSE LET rest == lstrip(SubSeq(s, k, Len(s))) IN
             IF rest = <<>> THEN <<SubSeq(s, 1, k - 1)>>
             ELSE <<SubSeq(s, 1, k - 1), rest>>

\* the header half of _extract_bearer_token: the token of a Bearer header
header_token(authorization) ==
    IF IsNone(authorization) \/ Get(authorization) = <<>> THEN None
    ELSE LET parts == split_once(Get(authorization)) IN
         IF Len(parts) = 2 /\ lower(parts[1]) = <<"bearer">>
         THEN Some(strip(parts[2]))
         ELSE None

\* a variant that reads the query parameter whatever the setting is
extract_bearer_token_query_always(request, allow_query_param) ==
    IF ~IsNone(header_token(request.authorization))
    THEN header_token(request.authorization)
    ELSE IF ~IsNone(request.access_token) /\ Get(request.access_token) # <<>>
    THEN Some(strip(Get(request.access_token)))
    ELSE None

\* _extract_bearer_token(request, allow_query_param=...) of the BigQuery service
extract_bearer_token(request, allow_query_param) ==
    IF ~IsNone(header_token(request.authorization))
    THEN header_token(request.authorization)
    ELSE IF allow_query_param /\ ~IsNone(request.access_token)
            /\ Get(request.access_token) # <<>>
    THEN Some(strip(Get(request.access_token)))
    ELSE None

\* the token authenticate_request looks up, per service: BigQuery consults the
\* setting and falls back to the header alone; Outlook reads the header alone.
\* (The GitHub service's services/secrets.py is not in the tree; its main.py
\* calls it exactly as Outlook's, and it is taken to read the header alone.)
request_token(settings, request) ==
    IF settings.service = "bigquery"
    THEN LET token == extract_bearer_token(request, settings.allow_query_param_token)
         IN  IF IsNone(token) THEN extract_bearer_token(request, FALSE) ELSE token
    ELSE header_token(request.authorization)

\* Settings.docs_enabled()
docs_enabled(settings) == LowerAtom(settings.env) \notin {"prod", "production"}

\* the paths bearer_auth lets through without a token
Exempt(settings, path) ==
    \/ path \in {"/", "/healthz"}
    \/ (docs_enabled(settings) /\ path \in {"/docs", "/openapi.json"})

\* the paths the application routes
Routed(settings, path) ==
    \/ path \in {"/", "/healthz", "/sse", "/messages/"}
    \/ (docs_enabled(settings) /\ path \in {"/docs", "/openapi.json"})

Services == {"bigquery", "github", "outlook"}

Envs == {"dev", "prod", "Production"}

MwSettings ==
    { s \in [service : Services, env : Envs, allow_query_param_token : BOOLEAN] :
        s.service # "bigquery" => ~s.allow_query_param_token }

MwStores ==
    { <<[token |-> <<"a">>, label |-> <<"label", 1>>]>>,
      <<[token |-> <<"a">>, label |-> <<"label", 1>>],
        [token |-> <<"b">>, label |-> <<"label", 2>>]>> }

Paths == {"/", "/healthz", "/docs", "/openapi.json", "/sse", "/messages/", "/healthz/"}

AuthorizationHeaders ==
    { None, Some(<<>>), Some(<<"Bearer">>), Some(<<"Bearer", " ">>),
      Some(<<"Bearer", " ", "a">>), Some(<<"bearer", " ", " ", "a", " ">>),
      Some(<<"BEARER", "\t", "b">>), Some(<<"Basic", " ", "a">>),
      Some(<<"Bearer", " ", "c">>), Some(<<"Bearer", " ", "U+00E9">>),
      Some(<<"Bearer", "a">>), Some(<<"a">>) }

AccessTokenParams ==
    { None, Some(<<>>), Some(<<"a">>), Some(<<" ", "a", " ">>), Some(<<"c">>),
      Some(<<" ">>), Some(<<"U+00E9">>) }

NoAuth(kind) == [kind |-> kind, detail |-> "", label |-> <<>>]

InitHttp ==
    /\ mwSettings \in MwSettings
    /\ mwStore \in MwStores
    /\ mwPc = "idle"
    /\ mwReq = <<>>
    /\ mwToken = None
    /\ mwAuth = NoAuth("unset")
    /\ mwStatus = 0
    /\ mwHandler = 0
    /\ IdleSql
    /\ IdleCc
    /\ IdleBq
    /\ IdleAuth
    /\ IdleGh
    /\ IdleOl
    /\ IdleSu
    /\ IdleCv

\* bearer_auth up to call_next or to its own response: an AuthError becomes a
\* 401, any other exception leaves the middleware and becomes a 500
Request(path, authorization, access_token) ==
    /\ mwPc = "idle"
    /\ mwReq' = [path |-> path, authorization |-> authorization,
                 access_token |-> access_token]
    /\ IF Exempt(mwSettings, path)
       THEN /\ mwToken' = None
            /\ mwAuth' = NoAuth("skipped")
            /\ mwHandler' = 1
            /\ mwStatus' = 0
            /\ mwPc' = "handler"
       ELSE LET token == request_token(mwSettings, mwReq')
                out == authenticate_request(mwStore, token)
            IN  /\ mwToken' = token
                /\ mwAuth' = out
                /\ mwHandler' = IF out.kind = "label" THEN 1 ELSE 0
                /\ mwStatus' = IF out.kind = "label" THEN 0
                               ELSE IF out.kind = "AuthError" THEN 401
                               ELSE 500
                /\ mwPc' = IF out.kind = "label" THEN "handler" ELSE "responded"
    /\ UNCHANGED <<mwSettings, mwStore>>

\* call_next returns the downstream response
HandlerReturns ==
    /\ mwPc = "handler"
    /\ mwPc' = "responded"
    /\ mwStatus' = IF Routed(mwSettings, mwReq.path) THEN 200 ELSE 404
    /\ UNCHANGED <<mwSettings, mwStore, mwReq, mwToken, mwAuth, mwHandler>>

\* the response has been sent
HttpDiscard ==
    /\ mwPc = "responded"
    /\ mwPc' = "idle"
    /\ mwReq' = <<>>
    /\ mwToken' = None
    /\ mwAuth' = NoAuth("unset")
    /\ mwStatus' = 0
    /\ mwHandler' = 0
    /\ UNCHANGED <<mwSettings, mwStore>>

NextHttp ==
    \/ /\ mwPc = "idle"
       /\ \E path \in Paths, authorization \in AuthorizationHeaders,
             access_token \in AccessTokenParams :
             Request(path, authorization, access_token) /\ UNCHANGED mwOthers
    \/ HandlerReturns /\ UNCHANGED mwOthers
    \/ HttpDiscard /\ UNCHANGED mwOthers

SpecHttp == InitHttp /\ [][NextHttp]_vars

-----------------------------------------------------------------------------
(* services/secrets.py: load_tokens_label_to_token, _parse_tokens_json,
   TokenStore.from_settings *)

\* A payload text is [form, items]: form "empty" is the empty string, "invalid" a
\* text json.loads refuses, "array" a JSON value that is no object, and "object"
\* a JSON object whose members, in order, are items: each [label, isstr, text],
\* the value being the string `text` or, with isstr FALSE, a number.
\* A dict is a sequence of [key, value] in insertion order.

ErrTokensJson == "Failed to parse MCP tokens JSON"

ErrTokensNotObject == "MCP tokens must be a JSON object mapping {label: token}"

ErrNoTokens == "No MCP tokens configured"

ErrSecretLookup == "the Secret Manager client raised"

\* d[k] = v: an existing key keeps its place
RECURSIVE DictSet(_, _, _)
DictSet(d, k, v) ==
    IF Len(d) = 0 THEN <<[key |-> k, value |-> v]>>
    ELSE IF Head(d).key = k THEN <<[key |-> k, value |-> v]>> \o Tail(d)
    ELSE <<Head(d)>> \o DictSet(Tail(d), k, v)

\* the loop of _parse_tokens_json over data.items(), cleaned so far
RECURSIVE CleanItems(_, _)
CleanItems(items, cleaned) ==
    IF Len(items) = 0 THEN cleaned
    ELSE LET it == Head(items) IN
         IF ~it.isstr THEN CleanItems(Tail(items), cleaned)
         ELSE IF strip(it.label) # <<>> /\ strip(it.text) # <<>>
         THEN CleanItems(Tail(items), DictSet(cleaned, strip(it.label), strip(it.text)))
         ELSE CleanItems(Tail(items), cleaned)

\* _parse_tokens_json(payload): [err, cleaned], cleaned a dict label -> token
parse_tokens_json(payload) ==
    IF payload.form \in {"empty", "invalid"} THEN [err |-> ErrTokensJson, cleaned |-> <<>>]
    ELSE IF payload.form # "object" THEN [err |-> ErrTokensNotObject, cleaned |-> <<>>]
    ELSE [err |-> NoError, cleaned |-> CleanItems(payload.items, <<>>)]

\* {token: label for label, token in label_to_token.items()}
RECURSIVE InvertFrom(_, _)
InvertFrom(label_to_token, token_to_label) ==
    IF Len(label_to_token) = 0 THEN token_to_label
    ELSE InvertFrom(Tail(label_to_token),
                    DictSet(token_to_label, Head(label_to_token).value,
                            Head(label_to_token).key))

\* `if settings.x:` on an optional str
IsSet(text) == ~IsNone(text) /\ Get(text).form # "empty"

\* a variant of from_settings without the check for an empty mapping
from_mapping_unchecked(parsed) ==
    IF parsed.err # NoError THEN [err |-> parsed.err, store |-> <<>>]
    ELSE [err |-> NoError, store |-> InvertFrom(parsed.cleaned, <<>>)]

\* TokenStore.from_settings, from what the chosen source parsed to: [err, store]
from_mapping(parsed) ==
    IF parsed.err # NoError THEN [err |-> parsed.err, store |-> <<>>]
    ELSE IF InvertFrom(parsed.cleaned, <<>>) = <<>> THEN [err |-> ErrNoTokens, store |-> <<>>]
    ELSE [err |-> NoError, store |-> InvertFrom(parsed.cleaned, <<>>)]

\* a variant that goes on to the injected payload when the inline JSON yields no
\* token
local_source_falling_through(settings) ==
    IF IsSet(settings.mcp_tokens_json)
          /\ parse_tokens_json(Get(settings.mcp_tokens_json)).cleaned # <<>>
    THEN "json"
    ELSE IF IsSet(settings.mcp_tokens_secret_payload) THEN "payload"
    ELSE IF ~IsNone(settings.mcp_tokens_secret_name) THEN "secret"
    ELSE "none"

\* load_tokens_label_to_token: the source the chain of `if`s settles on
local_source(settings) ==
    IF IsSet(settings.mcp_tokens_json) THEN "json"
    ELSE IF IsSet(settings.mcp_tokens_secret_payload) THEN "payload"
    ELSE IF ~IsNone(settings.mcp_tokens_secret_name) THEN "secret"
    ELSE "none"

Item(label, isstr, text) == [label |-> label, isstr |-> isstr, text |-> text]

Object(items) == [form |-> "object", items |-> items]

\* payload texts: not JSON, not an object, and objects with no member, with
\* values to trim, blank or numeric values, a blank label, labels that collide
\* once trimmed and tokens that collide
PayloadTexts ==
    { [form |-> "empty", items |-> <<>>], [form |-> "invalid", items |-> <<>>],
      [form |-> "array", items |-> <<>>],
      Object(<<>>),
      Object(<<Item(<<"x">>, TRUE, <<"a">>)>>),
      Object(<<Item(<<"x">>, TRUE, <<" ", "a", " ">>)>>),
      Object(<<Item(<<"x">>, TRUE, <<" ">>)>>),
      Object(<<Item(<<"x">>, FALSE, <<"5">>)>>),
      Object(<<Item(<<" ">>, TRUE, <<"a">>)>>),
      Object(<<Item(<<" ", "x">>, TRUE, <<"a">>), Item(<<"x">>, TRUE, <<"b">>)>>),
      Object(<<Item(<<"x">>, TRUE, <<"a">>), Item(<<"y">>, TRUE, <<"a">>)>>),
      Object(<<Item(<<"x">>, TRUE, <<"a">>), Item(<<"y">>, TRUE, <<"b">>)>>) }

OptPayloadTexts == {None} \cup { Some(p) : p \in PayloadTexts }

\* the Outlook service has no named secret
SuSettings ==
    { s \in [service : {"bigquery", "outlook"}, mcp_tokens_json : OptPayloadTexts,
             mcp_tokens_secret_payload : OptPayloadTexts,
             mcp_tokens_secret_name : {None, Some(<<"n">>)}] :
        s.service = "outlook" => IsNone(s.mcp_tokens_secret_name) }

InitStartup ==
    /\ suSettings \in SuSettings
    /\ suPc = "startup"
    /\ suReads = <<>>
    /\ suStore = <<>>
    /\ suErr = NoError
    /\ IdleSql
    /\ IdleCc
    /\ IdleBq
    /\ IdleAuth
    /\ IdleGh
    /\ IdleOl
    /\ IdleMw
    /\ IdleCv

\* token_store = TokenStore.from_settings(settings), up to its result or to the
\* call of the Secret Manager
FromSettings ==
    /\ suPc = "startup"
    /\ LET source == local_source(suSettings) IN
       IF source = "secret"
       THEN /\ suPc' = "reading_secret"
            /\ suReads' = <<"secret">>
            /\ UNCHANGED <<suStore, suErr>>
       ELSE LET parsed ==
                    IF source = "json"
                    THEN parse_tokens_json(Get(suSettings.mcp_tokens_json))
                    ELSE IF source = "payload"
                    THEN parse_tokens_json(Get(suSettings.mcp_tokens_secret_payload))
                    ELSE [err |-> NoError, cleaned |-> <<>>]
                built == from_mapping(parsed)
            IN  /\ suReads' = IF source = "none" THEN <<>> ELSE <<source>>
                /\ suStore' = built.store
                /\ suErr' = built.err
                /\ suPc' = IF built.err = NoError THEN "serving" ELSE "failed"
    /\ UNCHANGED suSettings

\* _read_secret_payload returns the secret's text
SecretReturns(payload) ==
    /\ suPc = "reading_secret"
    /\ LET built == from_mapping(parse_tokens_json(payload)) IN
       /\ suStore' = built.store
       /\ suErr' = built.err
       /\ suPc' = IF built.err = NoError THEN "serving" ELSE "failed"
    /\ UNCHANGED <<suSettings, suReads>>

\* _read_secret_payload raises
SecretRaises ==
    /\ suPc = "reading_secret"
    /\ suPc' = "failed"
    /\ suErr' = ErrSecretLookup
    /\ UNCHANGED <<suSettings, suReads, suStore>>

NextStartup ==
    \/ FromSettings /\ UNCHANGED suOthers
    \/ \E payload \in PayloadTexts : SecretReturns(payload) /\ UNCHANGED suOthers
    \/ SecretRaises /\ UNCHANGED suOthers

SpecStartup == InitStartup /\ [][NextStartup]_vars

-----------------------------------------------------------------------------
(* Tool invocations in flight together: main.py, mcp/tools/bigquery.py,
   outlook-mcp-servers mcp/tools/outlook.py *)

\* how many invocations one service has in flight
MaxInvocations == 2

Invocations == 1..MaxInvocations

\* the frame of a coroutine: its position, its arguments, its local `cleaned`,
\* the calls it has made to the backend and the error it raised
IdleFrame ==
    [pc |-> "idle", args |-> <<>>, cleaned |-> None, dry |-> None, calls |-> <<>>,
     err |-> NoError]

CvStores == { <<[token |-> <<"a">>, label |-> <<"x">>]>> }

CvTokens == { <<"a">>, <<"b">> }

CvBqSettings ==
    { [bq_max_bytes_billed |-> MaxBytes - 1, bq_default_limit |-> 1,
       bq_max_return_rows |-> MaxRows],
      [bq_max_bytes_billed |-> 0, bq_default_limit |-> MaxRows,
       bq_max_return_rows |-> 1] }

CvOlSettings ==
    { [max_days_range |-> MaxDays, max_events_return |-> MaxEvents],
      [max_days_range |-> 1, max_events_return |-> 1] }

CvSqls == { <<"x", ";">>, <<"x", ";", "x">>, <<" ", "x", "\n">> }

CvMaxRows == { None, Some(MaxRows + 1) }

CvStatementTypes == { Some(SELECT), Some(<<"I", "N", "S", "E", "R", "T">>) }

CvDryBytes == { Some(0), Some(MaxBytes) }

CvIso(h) == Some([form |-> "datetime", local |-> h, zone |-> "Z"])

\* [start_iso, end_iso]: a day, more days than any setting allows, and a range
\* that ends before it starts
CvRanges ==
    { <<CvIso(0), CvIso(HoursPerDay)>>, <<CvIso(0), CvIso(HoursPerDay * (MaxDays + 1))>>,
      <<CvIso(HoursPerDay), CvIso(0)>> }

CvMaxEvents == { None, Some(MaxEvents + 1) }

InitConcurrent ==
    /\ cvService \in {"bigquery", "outlook"}
    /\ cvSettings \in (IF cvService = "bigquery" THEN CvBqSettings ELSE CvOlSettings)
    /\ cvStore \in CvStores
    /\ cvInv = [i \in Invocations |-> IdleFrame]
    /\ IdleSql
    /\ IdleCc
    /\ IdleBq
    /\ IdleAuth
    /\ IdleGh
    /\ IdleOl
    /\ IdleMw
    /\ IdleSu

\* a variant in which `cleaned` is one module-level name that every invocation
\* assigns
LocalCleaned_module_level(i) ==
    IF \E j \in Invocations : j # i /\ ~IsNone(cvInv[j].cleaned)
    THEN Get(cvInv[CHOOSE j \in Invocations : j # i /\ ~IsNone(cvInv[j].cleaned)].cleaned)
    ELSE Get(cvInv[i].cleaned)

\* `cleaned` as invocation i reads it after an await: a local of its own frame
LocalCleaned(i) == Get(cvInv[i].cleaned)

\* bearer_auth refuses the request of invocation i: the tool does not run
CvUnauthorized(i, token) ==
    /\ cvInv[i].pc = "idle"
    /\ authenticate_request(cvStore, Some(token)).kind # "label"
    /\ cvInv' = [cvInv EXCEPT ![i] = [IdleFrame EXCEPT !.pc = "unauthorized",
                                                       !.err = "unauthorized"]]
    /\ UNCHANGED <<cvService, cvSettings, cvStore>>

\* bigquery_select of invocation i, up to its first await
CvBigquerySelect(i, token, sql, max_rows) ==
    /\ cvService = "bigquery"
    /\ cvInv[i].pc = "idle"
    /\ authenticate_request(cvStore, Some(token)).kind = "label"
    /\ LET cleaned == normalize_sql(Some(sql))
           frame == [IdleFrame EXCEPT !.args = <<sql, max_rows>>]
       IN  cvInv' = [cvInv EXCEPT ![i] =
              IF cleaned.err # NoError
              THEN [frame EXCEPT !.pc = "failed", !.err = cleaned.err]
              ELSE IF reject_multiple_statements(cleaned.value) # NoError
              THEN [frame EXCEPT !.pc = "failed", !.cleaned = Some(cleaned.value),
                                 !.err = reject_multiple_statements(cleaned.value)]
              ELSE [frame EXCEPT !.pc = "dry_run", !.cleaned = Some(cleaned.value),
                                 !.calls = <<[fn |-> "dry_run",
                                              args |-> <<cleaned.value>>]>>]]
    /\ UNCHANGED <<cvService, cvSettings, cvStore>>

\* the dry run of invocation i returns: the gates, the clamp, the second await
CvDryRunReturns(i, statement_type, total_bytes_processed) ==
    /\ cvInv[i].pc = "dry_run"
    /\ LET frame == [cvInv[i] EXCEPT !.dry = Some([statement_type |-> statement_type,
                                   total_bytes_processed |-> total_bytes_processed])]
           effective_rows == clamp_rows(cvInv[i].args[2], cvSettings.bq_default_limit,
                                        cvSettings.bq_max_return_rows)
       IN  cvInv' = [cvInv EXCEPT ![i] =
              IF ~StatementAllowed(statement_type)
              THEN [frame EXCEPT !.pc = "failed", !.err = ErrNotSelect]
              ELSE IF enforce_estimated_bytes(total_bytes_processed,
                                              cvSettings.bq_max_bytes_billed) # NoError
              THEN [frame EXCEPT !.pc = "failed", !.err = ErrCostExceeded]
              ELSE [frame EXCEPT !.pc = "execute",
                                 !.calls = Append(@, [fn |-> "execute_select",
                                     args |-> <<LocalCleaned(i), effective_rows>>])]]
    /\ UNCHANGED <<cvService, cvSettings, cvStore>>

\* outlook_meetings of invocation i, up to its await
CvOutlookMeetings(i, token, start_iso, end_iso, max_events) ==
    /\ cvService = "outlook"
    /\ cvInv[i].pc = "idle"
    /\ authenticate_request(cvStore, Some(token)).kind = "label"
    /\ LET parsed == parse_iso_range(start_iso, end_iso)
           clamped == clamp_range_days(parsed.start, parsed.end,
                                       cvSettings.max_days_range)
           limit == clamp_int(max_events, cvSettings.max_events_return, 1,
                              cvSettings.max_events_return)
           frame == [IdleFrame EXCEPT !.args = <<start_iso, end_iso, max_events>>]
       IN  cvInv' = [cvInv EXCEPT ![i] =
              IF parsed.err # NoError
              THEN [frame EXCEPT !.pc = "failed", !.err = parsed.err]
              ELSE IF clamped.err # NoError
              THEN [frame EXCEPT !.pc = "failed", !.err = clamped.err]
              ELSE [frame EXCEPT !.pc = "calling",
                                 !.calls = <<[fn |-> "list_meetings",
                                     args |-> <<clamped.start, clamped.end, limit>>]>>]]
    /\ UNCHANGED <<cvService, cvSettings, cvStore>>

\* the awaited backend call of invocation i returns its result
CvCallReturns(i) ==
    /\ cvInv[i].pc \in {"execute", "calling"}
    /\ cvInv' = [cvInv EXCEPT ![i].pc = "done"]
    /\ UNCHANGED <<cvService, cvSettings, cvStore>>

\* the awaited backend call of invocation i raises
CvCallRaises(i) ==
    /\ cvInv[i].pc \in {"dry_run", "execute", "calling"}
    /\ cvInv' = [cvInv EXCEPT ![i].pc = "failed", ![i].err = ErrBackend]
    /\ UNCHANGED <<cvService, cvSettings, cvStore>>

NextConcurrent ==
    \/ \E i \in Invocations, token \in CvTokens :
          CvUnauthorized(i, token) /\ UNCHANGED cvOthers
    \/ \E i \in Invocations, token \in CvTokens, sql \in CvSqls, max_rows \in CvMaxRows :
          CvBigquerySelect(i, token, sql, max_rows) /\ UNCHANGED cvOthers
    \/ \E i \in Invocations, st \in CvStatementTypes, b \in CvDryBytes :
          CvDryRunReturns(i, st, b) /\ UNCHANGED cvOthers
    \/ \E i \in Invocations, token \in CvTokens, range \in CvRanges,
          max_events \in CvMaxEvents :
          CvOutlookMeetings(i, token, range[1], range[2], max_events)
             /\ UNCHANGED cvOthers
    \/ \E i \in Invocations : CvCallReturns(i) /\ UNCHANGED cvOthers
    \/ \E i \in Invocations : CvCallRaises(i) /\ UNCHANGED cvOthers

SpecConcurrent == InitConcurrent /\ [][NextConcurrent]_vars

-----------------------------------------------------------------------------
(* Properties of bigquery_select *)

Executed == \E i \in 1..Len(bqCalls) : bqCalls[i].fn = "execute_select"

OverCap(estimate, cap) == ~IsNone(estimate) /\ cap > 0 /\ Get(estimate) > cap

\* C1: execute_select is invoked only after dry_run has returned and its estimate
\* has passed the cost gate; when the estimate is present, the cap is > 0 and the
\* estimate exceeds the cap, the invocation is rejected and execute_select is not
\* invoked.
C1_EstimateGateExecute ==
    /\ Executed =>
          /\ Len(bqCalls) = 2
          /\ bqCalls[1].fn = "dry_run"
          /\ bqCalls[2].fn = "execute_select"
          /\ ~IsNone(bqDry)
          /\ ~OverCap(Get(bqDry).total_bytes_processed, bqSettings.bq_max_bytes_billed)
    /\ (~IsNone(bqDry)
          /\ OverCap(Get(bqDry).total_bytes_processed, bqSettings.bq_max_bytes_billed))
        => (bqPc = "failed" /\ ~bqOut.ok /\ ~Executed)

\* a SELECT whose estimate is over the cap has been rejected by the cost gate
C1_Witness ==
    /\ bqPc = "failed"
    /\ bqOut.error = ErrCostExceeded
    /\ ~IsNone(bqDry)
    /\ Get(bqDry).statement_type = Some(SELECT)
    /\ OverCap(Get(bqDry).total_bytes_processed, bqSettings.bq_max_bytes_billed)

\* SELECT in any mix of upper and lower case
IsSelectAnyCase(statement_type) ==
    /\ ~IsNone(statement_type)
    /\ Len(Get(statement_type)) = 6
    /\ \A i \in 1..6 :
          Get(statement_type)[i] \in {SELECT[i], <<"s", "e", "l", "e", "c", "t">>[i]}

\* C2: a dry run whose statement classification is not SELECT (in any case), an
\* absent or empty one included, ends in the rejection and execute_select is not
\* invoked; execute_select is invoked only for a SELECT classification.
C2_OnlySelectExecutes ==
    /\ (~IsNone(bqDry) /\ ~IsSelectAnyCase(Get(bqDry).statement_type))
        => (bqPc = "failed" /\ bqOut.error = ErrNotSelect /\ ~Executed)
    /\ Executed => (~IsNone(bqDry) /\ IsSelectAnyCase(Get(bqDry).statement_type))

\* a dry run without a classification has been rejected
C2_Witness ==
    /\ bqPc = "failed"
    /\ bqOut.error = ErrNotSelect
    /\ ~IsNone(bqDry)
    /\ IsNone(Get(bqDry).statement_type)

\* C7 (as claimed): with bq_max_return_rows >= 1, the max_rows handed to
\* execute_select lies in [1, bq_max_return_rows], whatever the requested value
\* and the configured default are.
C7_RowsBetweenOneAndMax ==
    \A i \in 1..Len(bqCalls) :
        (bqCalls[i].fn = "execute_select" /\ bqSettings.bq_max_return_rows >= 1)
        => Get(bqCalls[i].max_rows) \in 1..bqSettings.bq_max_return_rows

Count(s, c) == Cardinality({ i \in 1..Len(s) : s[i] = c })

\* C10 (as claimed): the query handed to the dry run is not empty and holds at most
\* one ';', which is then its last non-whitespace character.
C10_AtMostOneTerminator ==
    \A i \in 1..Len(bqCalls) :
        bqCalls[i].fn = "dry_run" =>
            /\ bqCalls[i].sql # <<>>
            /\ Count(bqCalls[i].sql, ";") <= 1
            /\ Count(bqCalls[i].sql, ";") = 1
               => rstrip(bqCalls[i].sql)[Len(rstrip(bqCalls[i].sql))] = ";"

-----------------------------------------------------------------------------
(* Properties of the cost controls *)

EnforceApplied == ccArgs.fn = "enforce_estimated_bytes" /\ ccOut # <<>>

ClampApplied == ccArgs.fn = "clamp_rows" /\ ccOut # <<>>

\* C5: enforce_estimated_bytes raises the cost error exactly when the estimate is
\* present, max_bytes > 0 and the estimate is greater than max_bytes; otherwise
\* (estimate absent, max_bytes <= 0, estimate <= max_bytes) it returns.
C5_EnforceRaisesIffOverCap ==
    EnforceApplied =>
        /\ Get(ccOut) \in {NoError, ErrCostExceeded}
        /\ Get(ccOut) = ErrCostExceeded
           <=> OverCap(ccArgs.estimated_bytes, ccArgs.max_bytes)

\* an estimate equal to a positive cap has passed
C5_Witness ==
    /\ EnforceApplied
    /\ ccArgs.max_bytes > 0
    /\ ccArgs.estimated_bytes = Some(ccArgs.max_bytes)
    /\ Get(ccOut) = NoError

Min(a, b) == IF a <= b THEN a ELSE b

\* C6: clamp_rows returns min(default, hard_max) when requested is absent or <= 0
\* and min(requested, hard_max) when requested > 0; never more than hard_max.
C6_ClampRowsValue ==
    ClampApplied =>
        /\ Get(ccOut) =
              IF IsNone(ccArgs.requested) \/ Get(ccArgs.requested) <= 0
              THEN Min(ccArgs.default, ccArgs.hard_max)
              ELSE Min(Get(ccArgs.requested), ccArgs.hard_max)
        /\ Get(ccOut) <= ccArgs.hard_max

\* the default was used and, being above hard_max, was cut down to it
C6_Witness ==
    /\ ClampApplied
    /\ IsNone(ccArgs.requested)
    /\ ccArgs.default > ccArgs.hard_max
    /\ Get(ccOut) = ccArgs.hard_max

-----------------------------------------------------------------------------
(* Properties of the SQL guardrail *)

\* s[i..] is whitespace, block comments and line comments only, read left to
\* right as a SQL lexer reads them
RECURSIVE OnlyCommentsFrom(_, _)
OnlyCommentsFrom(s, i) ==
    IF i > Len(s) THEN TRUE
    ELSE IF s[i] \in Whitespace THEN OnlyCommentsFrom(s, i + 1)
    ELSE IF s[i] = "#" \/ At2(s, i, "-", "-")
         THEN OnlyCommentsFrom(s, FindLineEnd(s, i))
    ELSE IF At2(s, i, "/", "*") /\ FindBlockEnd(s, i + 2) # 0
         THEN OnlyCommentsFrom(s, FindBlockEnd(s, i + 2) + 2)
    ELSE FALSE

EmptyInputErrors == {ErrSqlEmpty, ErrSqlEmptyAfter}

\* C8 (as claimed): an input of whitespace and comments only is refused as empty;
\* a returned query is not empty and has no whitespace at either end.
C8_CommentsOnlyRefused ==
    (sqlOut # NoResult /\ ~IsNone(sqlIn)) =>
        /\ OnlyCommentsFrom(Get(sqlIn), 1) => sqlOut.err \in EmptyInputErrors
        /\ sqlOut.err = NoError =>
              /\ sqlOut.value # <<>>
              /\ sqlOut.value[1] \notin Whitespace
              /\ sqlOut.value[Len(sqlOut.value)] \notin Whitespace

\* C9 (as claimed): normalizing the output of normalize_sql succeeds and returns
\* that output again.
C9_NormalizeIdempotent ==
    sqlPc = "renormalized" => sqlOut2 = sqlOut

-----------------------------------------------------------------------------
(* Properties of the token store *)

LabelOf(store, k) == store[CHOOSE i \in 1..Len(store) : store[i].token = k].label

\* C4 (as claimed): authenticate_request fails with "Missing Bearer token" for an
\* absent or empty token, returns the label of the key the token equals, and fails
\* with "Invalid token" in every other case.
C4_AuthenticateOutcome ==
    authPc = "answered" =>
        authOut =
            IF IsNone(authToken) \/ Get(authToken) = <<>>
            THEN AuthError("Missing Bearer token")
            ELSE IF HasKey(authStore, Get(authToken))
            THEN Authenticated(LabelOf(authStore, Get(authToken)))
            ELSE AuthError("Invalid token")

-----------------------------------------------------------------------------
(* Properties of the GitHub tools *)

\* the allowlist is configured and owner/repo matches none of its patterns
NotOnAllowlist(owner, repo) ==
    LET patterns == parse_allowlist(ghSettings.github_allowed_repos) IN
    /\ Len(patterns) > 0
    /\ \A k \in 1..Len(patterns) :
          ~fnmatchcase(owner \o <<"/">> \o repo, patterns[k])

\* C3 (as claimed): an invocation of github_latest_commit (either handler) or of
\* github_latest_commits that names a repository the configured allowlist does not
\* match is rejected as not allowed and makes no call to the GitHub client.
C3_AllowlistBeforeGitHub ==
    (ghPc # "idle" /\ ghArgs.owner # <<>> /\ ghArgs.repo # <<>>
        /\ NotOnAllowlist(ghArgs.owner, ghArgs.repo))
    => (ghOut.error = ErrRepoNotAllowed /\ ghCalls = <<>>)

-----------------------------------------------------------------------------
(* Properties of reject_multiple_statements *)

\* the text reject_multiple_statements was last applied to
MultiArg == IF sqlPc = "checked" THEN Get(sqlIn) ELSE sqlOut.value

MultiApplied == sqlPc \in {"checked", "accepted"} \/ (sqlPc = "rejected" /\ sqlMulti # "unset")

\* a ';' of s that is followed, somewhere, by a character that is neither a ';'
\* nor whitespace: the ';' that removing trailing terminators cannot reach
TerminatorRemains(s) ==
    \E i \in 1..Len(s) :
        /\ s[i] = ";"
        /\ \E j \in (i + 1)..Len(s) : s[j] \notin (Whitespace \cup {";"})

-----------------------------------------------------------------------------
(* Properties of the Outlook time window *)

\* the instant, or wall-clock reading, a returned text denotes
InstantOf(text) == UtcHours(fromisoformat(replace_Z(text)).dt)

HasOffset(text) == text.zone # ""

\* clamp_range_days has been applied in the invocation at hand
ClampRangeApplied ==
    /\ olPc \in {"calling", "done", "failed"}
    /\ olArgs.tool = "outlook_meetings"
    /\ olParsed.err = NoError

\* C12 (as claimed): clamp_range_days fails with the end-not-after-start error
\* when end <= start; in every other case it returns the start instant it was
\* given, with the end unchanged when the span is at most max_days days and
\* start + max_days days when it is longer.
C12_ClampRangeValue ==
    ClampRangeApplied =>
        LET s == olParsed.start
            e == olParsed.end
            span == InstantOf(e) - InstantOf(s)
            cap == olSettings.max_days_range * HoursPerDay
        IN  IF HasOffset(s) = HasOffset(e) /\ InstantOf(e) <= InstantOf(s)
            THEN olClamped.err = ErrEndNotAfterStart
            ELSE /\ olClamped.err = NoError
                 /\ InstantOf(olClamped.start) = InstantOf(s)
                 /\ InstantOf(olClamped.end) =
                       IF span <= cap THEN InstantOf(e) ELSE InstantOf(s) + cap

\* C13 (as claimed): a range handed to list_meetings ends strictly after it
\* starts and spans at most max_days_range days.
C13_RangeWithinMaxDays ==
    \A i \in 1..Len(olCalls) :
        olArgs.tool = "outlook_meetings" =>
        /\ InstantOf(olCalls[i].end) > InstantOf(olCalls[i].start)
        /\ InstantOf(olCalls[i].end) - InstantOf(olCalls[i].start)
              <= olSettings.max_days_range * HoursPerDay

\* an endpoint parse_iso_range refuses: absent, empty, or no timestamp
BadEndpoint(t) == IsNone(t) \/ Get(t).form # "datetime"

\* C14: parse_iso_range fails when either endpoint is absent, empty or not a
\* timestamp, and otherwise returns the two texts exactly as given.
C14_ParseIsoRange ==
    (olPc \in {"calling", "done", "failed"} /\ olArgs.tool = "outlook_meetings") =>
        IF BadEndpoint(olArgs.start_iso) \/ BadEndpoint(olArgs.end_iso)
        THEN olParsed.err \in {ErrIsoRequired, ErrInvalidIso}
        ELSE /\ olParsed.err = NoError
             /\ olParsed.start = Get(olArgs.start_iso)
             /\ olParsed.end = Get(olArgs.end_iso)

\* C14 witness: two timestamps written with "Z" are returned with their "Z".
C14_Witness ==
    /\ olPc = "calling"
    /\ olArgs.tool = "outlook_meetings"
    /\ Get(olArgs.start_iso).zone = "Z"
    /\ Get(olArgs.end_iso).zone = "Z"
    /\ olParsed.start.zone = "Z"
    /\ olParsed.end.zone = "Z"

-----------------------------------------------------------------------------
(* Properties of the repository allowlist *)

\* glob matching with the two wildcards, read from the right: the first i
\* characters of pat match the first j characters of name
RECURSIVE WildcardPrefix(_, _, _, _)
WildcardPrefix(pat, i, name, j) ==
    IF i = 0 THEN j = 0
    ELSE IF pat[i] = "*"
         THEN WildcardPrefix(pat, i - 1, name, j)
              \/ (j > 0 /\ WildcardPrefix(pat, i, name, j - 1))
    ELSE IF pat[i] = "?"
         THEN j > 0 /\ WildcardPrefix(pat, i - 1, name, j - 1)
    ELSE j > 0 /\ name[j] = pat[i] /\ WildcardPrefix(pat, i - 1, name, j - 1)

WildcardMatch(name, pat) == WildcardPrefix(pat, Len(pat), name, Len(name))

\* github_latest_commit, as registered with the allowlist check, has applied
\* is_allowed to a named repository
AllowlistConsulted ==
    /\ ghPc \in {"calling", "done", "failed"}
    /\ ghArgs.handler = 2
    /\ ghArgs.owner # <<>>
    /\ ghArgs.repo # <<>>

\* C15: with no pattern every repository is allowed; with patterns, written with
\* "*" and "?", a repository is allowed exactly when "owner/repo" matches one of
\* them, upper and lower case being different characters.
C15_IsAllowed ==
    AllowlistConsulted =>
        LET patterns == parse_allowlist(ghSettings.github_allowed_repos)
            target == ghArgs.owner \o <<"/">> \o ghArgs.repo
            refused == ghOut.error = ErrRepoNotAllowed
        IN  /\ Len(patterns) = 0 => ~refused
            /\ (Len(patterns) > 0
                  /\ \A k \in 1..Len(patterns) : ~Contains(patterns[k], "["))
               => (~refused <=> \E k \in 1..Len(patterns) :
                                   WildcardMatch(target, patterns[k]))

\* C15 witness: "A/a" is refused under the allowlist "a/*".
C15_Witness ==
    /\ AllowlistConsulted
    /\ ghSettings.github_allowed_repos = Some(<<"a", "/", "*">>)
    /\ ghArgs.owner = <<"A">>
    /\ ghOut.error = ErrRepoNotAllowed

-----------------------------------------------------------------------------
(* Failures are terminal in bigquery_select *)

CallsTo(fn) == Cardinality({ i \in 1..Len(bqCalls) : bqCalls[i].fn = fn })

GuardrailErrors == {ErrSqlRequired, ErrSqlEmpty, ErrSqlEmptyAfter, ErrMultiStatement}

\* the SQL guardrail refuses the text the tool was called with
SqlGuardrailFails(sql) ==
    \/ normalize_sql(Some(sql)).err # NoError
    \/ TerminatorRemains(normalize_sql(Some(sql)).value)

\* C16: when normalize_sql or reject_multiple_statements fails, BigQuery is not
\* called at all; and no invocation calls dry_run or execute_select twice.
C16_FailureIsTerminal ==
    /\ (bqPc \in {"dry_run", "execute", "done", "failed"}
          /\ SqlGuardrailFails(bqArgs.sql))
       => (bqCalls = <<>> /\ bqPc = "failed" /\ bqOut.error \in GuardrailErrors)
    /\ bqOut.error \in GuardrailErrors => bqCalls = <<>>
    /\ CallsTo("dry_run") <= 1
    /\ CallsTo("execute_select") <= 1

\* C16 witness: a script is refused and nothing was sent to BigQuery.
C16_Witness ==
    /\ bqPc = "failed"
    /\ SqlGuardrailFails(bqArgs.sql)
    /\ bqOut.error = ErrMultiStatement
    /\ bqCalls = <<>>

\* C19 (as claimed): a call that reaches the comparison compares the presented
\* token with every key of the registry, whether and wherever it matches.
C19_ComparesEveryKey ==
    (authPc = "answered" /\ ~IsNone(authToken) /\ Get(authToken) # <<>>)
        => authCompares = Len(authStore)

-----------------------------------------------------------------------------
(* Properties of the HTTP front *)

\* the Authorization header is "Bearer", in any case, then whitespace, then the
\* text t (whitespace around the whole being ignored)
IsBearerOf(authorization, t) ==
    /\ ~IsNone(authorization)
    /\ LET s == strip(Get(authorization)) IN
       /\ Len(s) >= 3
       /\ s[1] \in {"Bearer", "bearer", "BEARER"}
       /\ s[2] \in Whitespace
       /\ lstrip(Tail(s)) = t

ValidBearerHeader ==
    \E i \in 1..Len(mwStore) : IsBearerOf(mwReq.authorization, mwStore[i].token)

CarriesBearer ==
    \E t \in {<<"a">>, <<"b">>, <<"c">>, <<"U+00E9">>} : IsBearerOf(mwReq.authorization, t)

ValidQueryToken ==
    /\ ~IsNone(mwReq.access_token)
    /\ HasKey(mwStore, strip(Get(mwReq.access_token)))

\* a request on a path that needs a token has been through bearer_auth
Guarded == mwPc \in {"handler", "responded"} /\ ~Exempt(mwSettings, mwReq.path)

\* C17: in the BigQuery service a request without a valid Bearer header is
\* refused when allow_query_param_token is off, whatever access_token holds; a
\* query token lets a request in only when the setting is on and the header
\* carries no Bearer token; a Bearer token in the header is the one looked up.
C17_QueryTokenOnlyWhenEnabled ==
    (Guarded /\ mwSettings.service = "bigquery") =>
        /\ (~mwSettings.allow_query_param_token /\ ~ValidBearerHeader)
              => (mwHandler = 0 /\ mwStatus \in {401, 500})
        /\ mwHandler = 1
              => \/ ValidBearerHeader
                 \/ /\ mwSettings.allow_query_param_token
                    /\ ~CarriesBearer
                    /\ ValidQueryToken
        /\ \A t \in {<<"a">>, <<"b">>, <<"c">>, <<"U+00E9">>} :
              IsBearerOf(mwReq.authorization, t) => mwToken = Some(t)

\* C17 witness: the setting is off and a request whose only credential is a
\* valid access_token is answered 401.
C17_Witness ==
    /\ Guarded
    /\ mwSettings.service = "bigquery"
    /\ ~mwSettings.allow_query_param_token
    /\ IsNone(mwReq.authorization)
    /\ ValidQueryToken
    /\ mwStatus = 401
    /\ mwHandler = 0

\* C18 (as claimed): on a path that needs a token the handler runs only after
\* authenticate_request returned a label, and a request that is not
\* authenticated is answered 401 without the handler running.
C18_HandlerOnlyAfterAuth ==
    Guarded =>
        /\ mwHandler = 1 => mwAuth.kind = "label"
        /\ mwAuth.kind # "label" => (mwStatus = 401 /\ mwHandler = 0)

-----------------------------------------------------------------------------
(* The two count clamps *)

\* C20 (as claimed): with 1 <= default <= max, clamp_int with min_value 1
\* returns what clamp_rows returns on the same value, default and max.
C20_ClampIntAsClampRows ==
    (ccArgs.fn = "clamp_int" /\ ccOut # <<>>
        /\ 1 <= ccArgs.default /\ ccArgs.default <= ccArgs.max_value)
    => Get(ccOut) = clamp_rows(ccArgs.value, ccArgs.default, ccArgs.max_value)

-----------------------------------------------------------------------------
(* The gated query is the query that runs *)

\* C28: the text given to execute_select is the text that was given to dry_run,
\* the normalized query, and a successful response reports that text as "query".
C28_SameSqlGatedAndRun ==
    bqPc \in {"execute", "done"} =>
        /\ Len(bqCalls) = 2
        /\ bqCalls[1].fn = "dry_run"
        /\ bqCalls[2].fn = "execute_select"
        /\ bqCalls[2].sql = bqCalls[1].sql
        /\ bqCalls[1].sql = normalize_sql(Some(bqArgs.sql)).value
        /\ bqPc = "done" => (bqOut.ok /\ bqOut.query = bqCalls[2].sql)

\* C28 witness: a query written with a comment and surrounding text to strip has
\* run, as the normalized text.
C28_Witness ==
    /\ bqPc = "done"
    /\ bqOut.ok
    /\ bqArgs.sql # bqOut.query
    /\ bqCalls[2].sql = bqOut.query

-----------------------------------------------------------------------------
(* The number of events asked of Graph *)

\* C27 (as claimed): every call of list_meetings, from any of the three tools,
\* asks for at least 1 and at most max_events_return events.
C27_ListMeetingsCount ==
    olSettings.max_events_return >= 1 =>
        \A i \in 1..Len(olCalls) :
            olCalls[i].fn = "list_meetings" =>
                /\ olCalls[i].max_events >= 1
                /\ olCalls[i].max_events <= olSettings.max_events_return

-----------------------------------------------------------------------------
(* The error kinds of the Outlook guardrail chain *)

\* C26 (as claimed): on a pair parse_iso_range accepted, clamp_range_days either
\* returns a pair or fails with "end_iso must be after start_iso"; the chain of
\* outlook_meetings fails with its own ValueErrors only.
C26_ClampRangeOutcomes ==
    /\ ClampRangeApplied => olClamped.err \in {NoError, ErrEndNotAfterStart}
    /\ (olPc = "failed" /\ olArgs.tool = "outlook_meetings" /\ olCalls = <<>>)
          => olOut.error \in {ErrIsoRequired, ErrInvalidIso, ErrEndNotAfterStart}

-----------------------------------------------------------------------------
(* Properties of process start *)

\* C24: from_settings ends with a store that has at least one key, every key a
\* non-empty text with no whitespace at either end, or with an error and no
\* store.
C24_StoreNeverEmpty ==
    /\ suPc = "serving" =>
          /\ suErr = NoError
          /\ Len(suStore) > 0
          /\ \A i \in 1..Len(suStore) :
                /\ suStore[i].key # <<>>
                /\ suStore[i].key[1] \notin Whitespace
                /\ suStore[i].key[Len(suStore[i].key)] \notin Whitespace
    /\ suPc = "failed" => (suErr # NoError /\ suStore = <<>>)

\* C24 witness: a store was built from a token written with spaces around it.
C24_Witness ==
    /\ suPc = "serving"
    /\ suReads = <<"json">>
    /\ Get(suSettings.mcp_tokens_json).items = <<Item(<<"x">>, TRUE, <<" ", "a", " ">>)>>
    /\ suStore = <<[key |-> <<"a">>, value |-> <<"x">>]>>

\* the highest-priority source that is set
FirstSetSource ==
    IF IsSet(suSettings.mcp_tokens_json) THEN <<"json">>
    ELSE IF IsSet(suSettings.mcp_tokens_secret_payload) THEN <<"payload">>
    ELSE IF ~IsNone(suSettings.mcp_tokens_secret_name) THEN <<"secret">>
    ELSE <<>>

\* a payload with no usable label -> token member
YieldsNoToken(payload) ==
    \/ payload.form # "object"
    \/ \A i \in 1..Len(payload.items) :
          \/ ~payload.items[i].isstr
          \/ strip(payload.items[i].label) = <<>>
          \/ strip(payload.items[i].text) = <<>>

\* C25: the only source read is the first that is set, in the order inline JSON,
\* injected payload, named secret; when that source yields no token, startup
\* fails and no other source is read.
C25_SourcePriority ==
    suPc \in {"reading_secret", "serving", "failed"} =>
        /\ suReads = FirstSetSource
        /\ (IsSet(suSettings.mcp_tokens_json)
              /\ YieldsNoToken(Get(suSettings.mcp_tokens_json)))
           => (suPc = "failed" /\ suStore = <<>>)
        /\ (~IsSet(suSettings.mcp_tokens_json)
              /\ IsSet(suSettings.mcp_tokens_secret_payload)
              /\ YieldsNoToken(Get(suSettings.mcp_tokens_secret_payload)))
           => (suPc = "failed" /\ suStore = <<>>)

\* C25 witness: the inline JSON is an object without a usable member and the
\* injected payload holds a token: startup failed on the inline JSON alone.
C25_Witness ==
    /\ suPc = "failed"
    /\ suReads = <<"json">>
    /\ Get(suSettings.mcp_tokens_json) = Object(<<Item(<<"x">>, TRUE, <<" ">>)>>)
    /\ IsSet(suSettings.mcp_tokens_secret_payload)
    /\ ~YieldsNoToken(Get(suSettings.mcp_tokens_secret_payload))
    /\ suErr = ErrNoTokens

-----------------------------------------------------------------------------
(* Properties of parse_allowlist *)

\* the positions of the commas of s, and 0 and Len(s) + 1
Fences(s) == {0, Len(s) + 1} \cup { i \in 1..Len(s) : s[i] = "," }

\* the texts between two neighbouring fences, in order
RECURSIVE ItemsAfter(_, _)
ItemsAfter(s, fence) ==
    IF fence = Len(s) + 1 THEN <<>>
    ELSE LET next == CHOOSE i \in Fences(s) :
                        i > fence /\ \A j \in Fences(s) : j > fence => i <= j
         IN  <<SubSeq(s, fence + 1, next - 1)>> \o ItemsAfter(s, next)

\* s without the whitespace at its ends
Trimmed(s) ==
    LET inked == { i \in 1..Len(s) : s[i] \notin Whitespace } IN
    IF inked = {} THEN <<>>
    ELSE SubSeq(s, CHOOSE i \in inked : \A j \in inked : i <= j,
                   CHOOSE i \in inked : \A j \in inked : i >= j)

RECURSIVE TrimmedNonEmpty(_)
TrimmedNonEmpty(items) ==
    IF Len(items) = 0 THEN <<>>
    ELSE IF Trimmed(Head(items)) = <<>> THEN TrimmedNonEmpty(Tail(items))
    ELSE <<Trimmed(Head(items))>> \o TrimmedNonEmpty(Tail(items))

OnlyCommasAndWhitespace(s) == \A i \in 1..Len(s) : s[i] \in Whitespace \cup {","}

\* C22: the patterns a tool enforces are the comma-separated items of
\* GITHUB_ALLOWED_REPOS in order, trimmed, without the empty ones; none is empty
\* or has whitespace at an end; there is none when the value is absent, empty or
\* only commas and whitespace, and then no repository is refused by policy.
C22_ParseAllowlist ==
    LET value == ghSettings.github_allowed_repos
        patterns == parse_allowlist(value)
    IN  (ghPc \in {"calling", "done", "failed"} /\ AllowlistConsulted) =>
          /\ patterns = IF IsNone(value) THEN <<>>
                        ELSE TrimmedNonEmpty(ItemsAfter(Get(value), 0))
          /\ \A k \in 1..Len(patterns) :
                /\ patterns[k] # <<>>
                /\ patterns[k][1] \notin Whitespace
                /\ patterns[k][Len(patterns[k])] \notin Whitespace
          /\ (IsNone(value) \/ OnlyCommasAndWhitespace(Get(value))) =>
                /\ patterns = <<>>
                /\ ghOut.error # ErrRepoNotAllowed

\* C22 witness: with a value of a comma and a space, a request for a/b went on to
\* the GitHub client.
C22_Witness ==
    /\ ghSettings.github_allowed_repos = Some(<<",", " ">>)
    /\ AllowlistConsulted
    /\ ghPc = "calling"
    /\ ghArgs.owner = <<"a">>
    /\ ghArgs.repo = <<"b">>

-----------------------------------------------------------------------------
(* What normalize_sql deletes *)

\* the quote that closes the literal opened before position from, or Len(s) when
\* the literal is not closed
RECURSIVE FindQuoteEnd(_, _)
FindQuoteEnd(s, from) ==
    IF from >= Len(s) THEN Len(s)
    ELSE IF s[from] = "'" THEN from
    ELSE FindQuoteEnd(s, from + 1)

\* s[i..] as a SQL lexer reads it: a string literal is kept whole, a line
\* comment and a closed block comment are replaced by `gap`, any other character
\* is kept
RECURSIVE LexFrom(_, _, _)
LexFrom(s, i, gap) ==
    IF i > Len(s) THEN <<>>
    ELSE IF s[i] = "'"
         THEN SubSeq(s, i, FindQuoteEnd(s, i + 1)) \o LexFrom(s, FindQuoteEnd(s, i + 1) + 1, gap)
    ELSE IF s[i] = "#" \/ At2(s, i, "-", "-")
         THEN LexFrom(s, FindLineEnd(s, i), gap)
    ELSE IF At2(s, i, "/", "*") /\ FindBlockEnd(s, i + 2) # 0
         THEN gap \o LexFrom(s, FindBlockEnd(s, i + 2) + 2, gap)
    ELSE <<s[i]>> \o LexFrom(s, i + 1, gap)

\* the tokens of s: the runs of characters between whitespace, a string literal
\* never being split; word is the token collected so far
RECURSIVE TokensFrom(_, _, _)
TokensFrom(s, i, word) ==
    IF i > Len(s) THEN (IF word = <<>> THEN <<>> ELSE <<word>>)
    ELSE IF s[i] = "'"
         THEN TokensFrom(s, FindQuoteEnd(s, i + 1) + 1,
                         word \o SubSeq(s, i, FindQuoteEnd(s, i + 1)))
    ELSE IF s[i] \in Whitespace
         THEN (IF word = <<>> THEN <<>> ELSE <<word>>) \o TokensFrom(s, i + 1, <<>>)
    ELSE TokensFrom(s, i + 1, Append(word, s[i]))

\* C21 (as claimed): the query returned is the input without its comments and
\* without the whitespace at its ends, every character outside a comment, those
\* of a string literal included, kept in order; and its tokens are the tokens of
\* the input, a block comment between two tokens keeping them apart.
C21_OnlyCommentsDeleted ==
    (sqlOut # NoResult /\ ~IsNone(sqlIn) /\ sqlOut.err = NoError) =>
        /\ sqlOut.value = strip(LexFrom(Get(sqlIn), 1, <<>>))
        /\ TokensFrom(sqlOut.value, 1, <<>>)
              = TokensFrom(LexFrom(Get(sqlIn), 1, <<" ">>), 1, <<>>)

-----------------------------------------------------------------------------
(* Invocations in flight together *)

\* what bigquery_select has done by itself with these arguments once the dry run
\* has answered `dry` (None: not yet): the error raised and the calls made
BqAlone(settings, sql, max_rows, dry) ==
    LET n == normalize_sql(Some(sql))
        first == <<[fn |-> "dry_run", args |-> <<n.value>>]>>
    IN  IF n.err # NoError THEN [err |-> n.err, calls |-> <<>>]
        ELSE IF reject_multiple_statements(n.value) # NoError
        THEN [err |-> ErrMultiStatement, calls |-> <<>>]
        ELSE IF IsNone(dry) THEN [err |-> NoError, calls |-> first]
        ELSE IF ~StatementAllowed(Get(dry).statement_type)
        THEN [err |-> ErrNotSelect, calls |-> first]
        ELSE IF enforce_estimated_bytes(Get(dry).total_bytes_processed,
                                        settings.bq_max_bytes_billed) # NoError
        THEN [err |-> ErrCostExceeded, calls |-> first]
        ELSE [err |-> NoError,
              calls |-> Append(first,
                  [fn |-> "execute_select",
                   args |-> <<n.value, clamp_rows(max_rows, settings.bq_default_limit,
                                                  settings.bq_max_return_rows)>>])]

\* what outlook_meetings has done by itself with these arguments
OlAlone(settings, start_iso, end_iso, max_events) ==
    LET parsed == parse_iso_range(start_iso, end_iso)
        clamped == clamp_range_days(parsed.start, parsed.end, settings.max_days_range)
    IN  IF parsed.err # NoError THEN [err |-> parsed.err, calls |-> <<>>]
        ELSE IF clamped.err # NoError THEN [err |-> clamped.err, calls |-> <<>>]
        ELSE [err |-> NoError,
              calls |-> <<[fn |-> "list_meetings",
                           args |-> <<clamped.start, clamped.end,
                                      clamp_int(max_events, settings.max_events_return,
                                                1, settings.max_events_return)>>]>>]

Alone(i) ==
    IF cvService = "bigquery"
    THEN BqAlone(cvSettings, cvInv[i].args[1], cvInv[i].args[2], cvInv[i].dry)
    ELSE OlAlone(cvSettings, cvInv[i].args[1], cvInv[i].args[2], cvInv[i].args[3])

InTool(i) == cvInv[i].pc \in {"dry_run", "execute", "calling", "done", "failed"}

\* every invocation has raised the error and made the calls it makes by itself
\* (an error of the backend apart)
SameAsAlone ==
    \A i \in Invocations :
        InTool(i) =>
            /\ cvInv[i].calls = Alone(i).calls
            /\ \/ cvInv[i].err = Alone(i).err
               \/ cvInv[i].err = ErrBackend /\ Alone(i).err = NoError

\* C23: whatever the interleaving of the invocations in flight, no step changes
\* the token registry or the settings, and each invocation's guardrail chain
\* ends as it does when the invocation runs by itself on the same arguments.
C23_InvocationsIndependent ==
    /\ [](SameAsAlone)
    /\ [][cvStore' = cvStore /\ cvSettings' = cvSettings]_vars

\* C23 witness: one bigquery_select, called with "x;", waits for its query to
\* return while another, called with " x\n", waits for its dry run.
C23_Witness ==
    /\ cvService = "bigquery"
    /\ cvInv[1].pc = "execute"
    /\ cvInv[1].args[1] = <<"x", ";">>
    /\ cvInv[2].pc = "dry_run"
    /\ cvInv[2].args[1] = <<" ", "x", "\n">>

====
